---- MODULE Spec2Model ----
(***************************************************************************)
(* Reconciliation engine of the secret-manager-controller: one             *)
(* SecretManagerConfig (SMC) whose sourceRef is a FluxCD GitRepository.    *)
(* The model covers the Flux artifact fetch with its on-disk revision      *)
(* cache, the sync of the projected secrets into the provider, and the     *)
(* two status patches.                                                     *)
(***************************************************************************)
EXTENDS Integers, Sequences, FiniteSets, TLC

\* ---------------------------------------------------------------- bounds
\* Revisions the GitRepository can publish.
MaxRev == 4
\* Revisions published where the sync is followed to its end.
SyncRevs == 2
\* Service directories of the repository; each service projects one secret.
NumServices == 1
\* Distinct secret values.
MaxVal == 2
\* Cap of the per-secret updateCount explored.
MaxCount == 2
\* Bytes of the largest artifact body.
MaxBody == 2
\* Distinct sha256 digests.
NumHashes == 2
\* targetRevision values an ArgoCD Application takes.
MaxTarget == 3
\* Ticks between two firings of the periodic timer (reconcileInterval).
ReconcileInterval == 2
\* Cap of the error_count explored.
MaxErrors == 11
\* application file sets find_application_files can return
MaxFileSets == 2
\* Status patch calls followed, each at a later time.
MaxClock == 4
\* Timestamps msmctl can write into the reconcile annotation.
MaxStamp == 2
\* Manual reconciliations followed after one write of the annotation.
MaxManualRuns == 3
\* Distinct SOPS keys.
MaxKey == 2
\* Key secrets that exist at a time.
MaxSecrets == 2
\* Watch events waiting to be processed.
MaxEvents == 2
\* Largest exit code of the sops process.
MaxExitCode == 7
\* Commits pushed to a branch of the repository an Application names.
MaxCommits == 2
\* Largest initial backoff of the watch stream, and largest configured
\* maximum of it, in milliseconds.
MaxBackoffStartMs == 3
MaxBackoffMs == 8

\* ------------------------------------------------------ program constants
\* cleanup_old_revisions keeps the 3 newest revision directories.
KeepRevisions == 3
\* Length of the gzip magic number read by read_exact.
MagicLen == 2
\* Characters of the commit sha kept in the revision directory name.
ShortShaLen == 7
\* Attempts of the RBAC verification of the key watcher, and the seconds it
\* sleeps between two of them.
MAX_RETRIES == 10
RETRY_DELAY_SECS == 1

None == "none"
\* An absent number: no Content-Length header, no secretsSynced in the status.
Absent == -1

Services == 1..NumServices
Values == 1..MaxVal
RevIds == 1..MaxRev
Hashes == 1..NumHashes

\* Magic numbers a downloaded file can start with: gzip, an off-by-one
\* neighbour of gzip, and zip.
GzipMagic == "1f8b"
Magics == {"1f8b", "1f8a", "504b"}

\* A further revision, whose sha has its first seven digits in common with
\* the sha of revision 1.
TwinRev == MaxRev + 1

\* status.artifact.revision of revision r: "main@sha1:<hex>", the hex digits
\* given as a tuple whose first digit tells the revisions 1..MaxRev apart.
Revision(r) ==
    [branch |-> "main",
     sha |-> IF r = TwinRev THEN <<1, 0, 0, 0, 0, 0, 0, 1, 0>>
             ELSE <<r, 0, 0, 0, 0, 0, 0, 0, 0>>]

\* The value service s holds in the tree of revision r.
GitValue(r, s) == IF s = 1 THEN ((r - 1) % MaxVal) + 1
                  ELSE (((r - 1) \div 2) % MaxVal) + 1

\* Revision directory name "{branch}-sha-{short_sha}".
RevisionDir(revision) ==
    LET sha == revision.sha
        short_sha == IF Len(sha) >= ShortShaLen THEN SubSeq(sha, 1, ShortShaLen) ELSE sha
    IN  <<revision.branch, short_sha>>

RevDirs == {RevisionDir(Revision(r)) : r \in RevIds}

\* -------------------------------------------------------------- resources
\* Names are sequences of characters.
\* SecretManagerConfig objects: two objects of the same name in two namespaces.
SMCs == {[namespace |-> <<"a">>, name |-> <<"x">>],
         [namespace |-> <<"b">>, name |-> <<"x">>]}

\* The object whose reconciliation is followed step by step.
Self == [namespace |-> <<"a">>, name |-> <<"x">>]

\* Source objects a sourceRef can name.
Sources == {[kind |-> k, namespace |-> <<"f">>, name |-> n] :
               k \in {"GitRepository", "Application"}, n \in {<<"r">>, <<"r", ".", "1">>}}

FluxSource == [kind |-> "GitRepository", namespace |-> <<"f">>, name |-> <<"r">>]
ArgoSource == [kind |-> "Application", namespace |-> <<"f">>, name |-> <<"r">>]

\* ------------------------------------------------------------------ state
VARIABLES
    gitRepo,      \* the GitRepository object: exists, revision of status.artifact (0: none)
    disk,         \* revision directory -> [exists, tar, tree, rev: whose tree it is]
    lru,          \* existing revision directories, newest mtime first
    provider,     \* secret name -> value held by the provider (0: absent)
    triggerUpdate,\* spec.triggerUpdate of the object being reconciled
    kustomize,    \* spec.secrets.kustomizePath of that object is set
    status,       \* persisted SMC status
    config,       \* the SMC object handed to the reconciliation (status as of its start)
    pc,           \* position of the reconciliation
    repoSnap,     \* git_repo value read by get_flux_git_repository
    downloaded,   \* downloaded_size
    fetchRes,     \* result of get_flux_artifact_path: none / ok / err
    fetchErr,     \* which step failed the fetch
    artifactResult, \* ArtifactPathResult: none / Path / AwaitChange / Error
    svc,          \* next service of the sync loop
    secretsSynced,\* secrets_synced accumulator of sync_secrets
    synced,       \* synced_secrets map built during the sync
    calls,        \* per secret, the create_or_update_secret call made in this reconciliation
    provHeld,     \* value the provider held for each secret when the reconciliation started
    result,       \* outcome of the reconciliation: none / ok / await / error / transient
    startup,      \* reconcile_existing_resources: objects of the list still to reconcile
    loopStarted,  \* run_watch_loop has been entered
    queue,        \* objects waiting in the work queue of the watch loop
    running,      \* object -> "none", or who runs its reconciliation: "startup" / "loop"
    overlaps,     \* object -> a reconciliation of it started while another one ran
    timer,        \* object -> ticks until its periodic timer fires
    outcome,      \* object -> how its last reconciliation in the loop ended
    backoff_states, \* Reconciler::backoff_states: resource key -> BackoffState
    action,       \* object -> the Action its last reconciliation ended with
    poisoned,     \* the backoff_states mutex is poisoned
    sourceRef,    \* object -> spec.sourceRef
    cachePathOf,  \* object -> the cache directory its fetch resolved to
    application,  \* the ArgoCD Application: exists, targetRevision (0: HEAD)
    argoDisk,     \* repo hash -> [exists, head]
    argoLru,      \* existing ArgoCD clone directories, newest mtime first
    remoteHead,   \* targetRevision -> commit that name resolves to at the remote
    syncPc,       \* position of sync_secrets and of the reconciliation around it
    fileSets,     \* number of application file sets find_application_files returned
    fileIdx,      \* file set the loop of sync_secrets is at
    fileError,    \* file set -> what process_application_files returned for it
    fileWrites,   \* file set -> provider writes made while it was processed
    syncResult,   \* SyncResult of sync_secrets: none / Success / TransientError / Error
    now,          \* chrono::Utc::now() as the next status patch call reads it
    patchPc,      \* a reconciliation holds the object handed to it: idle / running
    suspend,      \* spec.suspend
    runs,         \* reconciliations made with spec.suspend set, since it was last set
    lastCall,     \* the status patch call the reconciliation made last, with its arguments
    annotation,   \* object -> stored value of its reconcile annotation (0: absent)
    handed,       \* object -> that annotation on the object its reconciliation holds
    pending,      \* object -> the controller has a trigger for it not yet served
    manualPc,     \* object -> its reconciliation: idle / running
    manualRuns,   \* object -> manual reconciliations started since the annotation was written
    manualOk,     \* object -> one of them has succeeded
    secrets,      \* <<namespace, name>> -> the Secret of that name as the API holds it
    watchEvents,  \* events of the Secret watch stream not yet processed, oldest first
    sops_private_key, \* Reconciler::sops_private_key (0: None)
    lastValid,    \* valid key of the latest processed event that carried one (0: none yet)
    lastEvent,    \* the watch event processed last, and whether its reload succeeded
    watchPc,      \* position of the task start_sops_key_watch spawned
    retry_count,  \* retry_count of its RBAC verification loop
    slept,        \* seconds that loop has slept
    rbacOk,       \* the list of secrets across all namespaces is permitted now
    fetched,      \* what its reload got from the API: whether to assign, and the key
    keyLock,      \* holder of the sops_private_key mutex: none / watcher / reader
    exit_code,    \* exit code of the sops child process (Absent: it has none)
    stderr,       \* what the child wrote to stderr, as a sequence of words
    sopsError,    \* the SopsDecryptionError built from them
    watch_backoff,  \* the backoff handle_watch_stream_error is given, in ms (0: not created)
    max_backoff_ms, \* max_backoff_ms it is given (0: the watch has not started)
    streamResult, \* the watch-stream error handled last: arm taken, delay slept, restart
    peerPc,       \* position of the fetch a reconciliation of another SMC is making
    peerRev       \* revision that fetch read from the GitRepository

reconcileVars == <<gitRepo, disk, lru, provider, triggerUpdate, kustomize, status, config,
                   pc, repoSnap, downloaded, fetchRes, fetchErr, artifactResult, svc,
                   secretsSynced, synced, calls, provHeld, result>>
loopVars == <<startup, loopStarted, queue, running, overlaps, timer, outcome>>
policyVars == <<backoff_states, action, poisoned>>
cacheVars == <<sourceRef, cachePathOf>>
argoVars == <<application, argoDisk, argoLru, remoteHead>>
syncVars == <<syncPc, fileSets, fileIdx, fileError, fileWrites, syncResult>>
statusVars == <<now, patchPc, suspend, runs, lastCall>>
manualVars == <<annotation, handed, pending, manualPc, manualRuns, manualOk>>
keyVars == <<secrets, watchEvents, sops_private_key, lastValid, lastEvent>>
watchVars == <<watchPc, retry_count, slept, rbacOk, fetched, keyLock>>
sopsVars == <<exit_code, stderr, sopsError>>
streamVars == <<watch_backoff, max_backoff_ms, streamResult>>
peerVars == <<peerPc, peerRev>>
componentVars == <<syncVars, statusVars, manualVars, keyVars, watchVars, sopsVars, streamVars, peerVars>>
otherVars == <<loopVars, policyVars, cacheVars, argoVars, componentVars>>

vars == <<reconcileVars, otherVars>>


NoDir == [exists |-> FALSE, tar |-> FALSE, tree |-> 0, rev |-> 0]
NoSnap == [rev |-> 0, ready |-> FALSE, reconciling |-> FALSE]
NoCall == [made |-> FALSE, value |-> 0, prior |-> 0, changed |-> FALSE, wrote |-> FALSE,
           ok |-> FALSE]
\* Secrets that can hold the SOPS key: the names are tried in this order.
SecretNames == <<"sops-private-key", "sops-gpg-key", "gpg-key">>
ControllerNamespace == "microscaler-system"
Namespaces == {ControllerNamespace, "team-a"}
SecretRefs == Namespaces \X {SecretNames[i] : i \in DOMAIN SecretNames}
\* A data field that is not UTF-8.
NotUtf8 == -1
\* Data of a Secret: per field a key, NotUtf8, or 0 when the field is absent.
SecretData(private_key, key, gpg_key) ==
    [exists |-> TRUE, private_key |-> private_key, key |-> key, gpg_key |-> gpg_key]
NoSecret == [exists |-> FALSE, private_key |-> 0, key |-> 0, gpg_key |-> 0]
NoError == [kind |-> "none", reason |-> None, message |-> <<>>]
FileSetIds == 1..MaxFileSets
NoStatus == [phase |-> None, description |-> None, secretsSynced |-> Absent,
             sync |-> [s \in Services |-> 0], conditions |-> <<>>,
             lastReconcileTime |-> Absent]
NoEvent == [type |-> None, reloaded |-> FALSE, before |-> 0]
NoFetch == [assign |-> FALSE, key |-> 0]
NoDelay == [unit |-> None, n |-> 0]
NoStreamResult == [error |-> <<>>, arm |-> None, delay |-> NoDelay, restart |-> FALSE]
NoPatchCall == [op |-> None, phase |-> None, description |-> None, count |-> Absent]

\* ------------------------------------------------------------ artifact cache
\* Directory d becomes the most recently modified one.
Touch(l, d) == <<d>> \o SelectSeq(l, LAMBDA x : x # d)
Forget(l, d) == SelectSeq(l, LAMBDA x : x # d)

\* read_dir(cache_path) yields at least one entry: the tarball counts as one.
HasEntries(dir) == dir.tree + (IF dir.tar THEN 1 ELSE 0) >= 1

\* The cache check at the head of get_flux_artifact_path.
IsCached(dir) == dir.exists /\ HasEntries(dir)

\* cleanup_old_revisions: with 4 or more revision directories, all but the
\* 3 newest by mtime are removed.
CleanupDisk(dk, l) ==
    IF Len(l) >= KeepRevisions + 1
    THEN [d \in DOMAIN dk |->
            IF \E i \in (KeepRevisions + 1)..Len(l) : l[i] = d THEN NoDir ELSE dk[d]]
    ELSE dk

CleanupLru(l) ==
    IF Len(l) >= KeepRevisions + 1 THEN SubSeq(l, 1, KeepRevisions) ELSE l

\* ------------------------------------------------------------------ status
SyncedDescription(n) == "Successfully synced " \o ToString(n) \o " secrets"

\* The Ready condition as it would be with status True in every phase.
ReadyStatusAlwaysTrue(phase) == "True"

\* ready_status of the Ready condition a status patch writes.
ReadyStatus(phase) == IF phase = "Ready" THEN "True" ELSE "False"

\* ready_reason of that condition.
ReadyReason(phase) ==
    IF phase = "Ready" THEN "ReconciliationSucceeded"
    ELSE IF phase = "Failed" THEN "ReconciliationFailed"
    ELSE "ReconciliationInProgress"

\* The conditions a status patch carries: one Ready condition whose
\* last_transition_time is the time of the call. A merge patch replaces the
\* stored array by this one.
Conditions(phase) ==
    <<[type |-> "Ready", status |-> ReadyStatus(phase),
       lastTransitionTime |-> now, reason |-> ReadyReason(phase)]>>

\* update_status_phase as it would be with a patch that replaces the status:
\* the sync state goes with the fields the patch does not name.
UpdateStatusPhaseReplacesStatus(st, cfg, phase, message) ==
    IF cfg.phase = phase /\ cfg.description = message
    THEN st
    ELSE [st EXCEPT !.phase = phase, !.description = message, !.secretsSynced = Absent,
                    !.sync = [s \in Services |-> 0],
                    !.conditions = Conditions(phase), !.lastReconcileTime = now]

\* update_status_phase as it would be without the check of the current phase
\* and description.
UpdateStatusPhaseAlwaysPatches(st, cfg, phase, message) ==
    [st EXCEPT !.phase = phase, !.description = message, !.secretsSynced = Absent,
               !.conditions = Conditions(phase), !.lastReconcileTime = now]

\* update_status_phase: a merge patch of phase, description and a null
\* secretsSynced, skipped when the reconciled object already shows the phase
\* and description.
UpdateStatusPhase(st, cfg, phase, message) ==
    IF cfg.phase = phase /\ cfg.description = message
    THEN st
    ELSE [st EXCEPT !.phase = phase, !.description = message, !.secretsSynced = Absent,
                    !.conditions = Conditions(phase), !.lastReconcileTime = now]

\* update_status as it would be without the check of the current phase and
\* count.
UpdateStatusAlwaysPatches(st, cfg, secrets_synced, synced_secrets) ==
    [st EXCEPT !.phase = "Ready",
               !.description = SyncedDescription(secrets_synced),
               !.secretsSynced = secrets_synced,
               !.sync = [s \in Services |->
                           IF synced_secrets[s] # 0 THEN synced_secrets[s]
                           ELSE st.sync[s]],
               !.conditions = Conditions("Ready"), !.lastReconcileTime = now]

\* update_status: a merge patch of phase Ready, the count and the sync maps,
\* skipped when the reconciled object is Ready with the same count.
UpdateStatus(st, cfg, secrets_synced, synced_secrets) ==
    LET current_secrets_synced ==
            IF cfg.secretsSynced = Absent THEN 0 ELSE cfg.secretsSynced
    IN  IF current_secrets_synced = secrets_synced /\ cfg.phase = "Ready"
        THEN st
        ELSE [st EXCEPT !.phase = "Ready",
                        !.description = SyncedDescription(secrets_synced),
                        !.secretsSynced = secrets_synced,
                        !.sync = [s \in Services |->
                                    IF synced_secrets[s] # 0 THEN synced_secrets[s]
                                    ELSE st.sync[s]],
                        !.conditions = Conditions("Ready"), !.lastReconcileTime = now]

\* ---------------------------------------------------------------- provider
\* create_or_update_secret without the comparison: every call sets the secret.
CreateOrUpdateSecretAlwaysSets(current, value, getOk, setOk) ==
    IF ~getOk
    THEN [ok |-> FALSE, changed |-> FALSE, wrote |-> FALSE, held |-> current]
    ELSE IF setOk
    THEN [ok |-> TRUE, changed |-> TRUE, wrote |-> TRUE, held |-> value]
    ELSE [ok |-> FALSE, changed |-> FALSE, wrote |-> FALSE, held |-> current]

\* create_or_update_secret: reads the current value, returns false without a
\* write when it equals the new one, otherwise sets the secret.
CreateOrUpdateSecret(current, value, getOk, setOk) ==
    IF ~getOk
    THEN [ok |-> FALSE, changed |-> FALSE, wrote |-> FALSE, held |-> current]
    ELSE IF current # 0 /\ current = value
    THEN [ok |-> TRUE, changed |-> FALSE, wrote |-> FALSE, held |-> current]
    ELSE IF setOk
    THEN [ok |-> TRUE, changed |-> TRUE, wrote |-> TRUE, held |-> value]
    ELSE [ok |-> FALSE, changed |-> FALSE, wrote |-> FALSE, held |-> current]

\* ------------------------------------------------------------------- Init
\* ------------------------------------------------------------ error policy
\* resource_key of handle_reconciliation_error, with two objects of one name
\* keyed together.
ResourceKeyNameOnly(namespace, name) == name

\* resource_key of handle_reconciliation_error: "{namespace}/{name}".
ResourceKey(namespace, name) == namespace \o <<"/">> \o name

KeyOf(s) == ResourceKey(s.namespace, s.name)

Keys == {KeyOf(s) : s \in SMCs}

\* The Fibonacci numbers 1, 1, 2, 3, 5, 8, 13, ... counted from index 0.
RECURSIVE Fib(_)
Fib(i) == IF i <= 1 THEN 1 ELSE Fib(i - 1) + Fib(i - 2)

\* FibonacciBackoff::new(min_minutes, max_minutes).
FibonacciBackoff(min_minutes, max_minutes) ==
    [min |-> min_minutes, max |-> max_minutes, index |-> 0]

\* The minutes next_backoff_seconds returns: the Fibonacci number at the
\* index, kept between the minimum and the maximum of the backoff.
NextBackoffMinutes(b) ==
    LET f == Fib(b.index)
    IN  IF f > b.max THEN b.max ELSE IF f < b.min THEN b.min ELSE f

\* Minimum and maximum the error policy constructs its backoff with.
PolicyMinMinutes == 1
PolicyMaxMinutes == 10

\* A key the backoff_states map has no entry for.
NoBackoffState == [present |-> FALSE, error_count |-> 0,
                   backoff |-> FibonacciBackoff(PolicyMinMinutes, PolicyMaxMinutes)]

\* Action of kube_runtime: requeue after a delay, or await_change.  The kind
\* tells where the delay comes from; minutes is the delay of a backoff.
NoAction == [kind |-> "none", minutes |-> 0]
RequeueInterval == [kind |-> "interval", minutes |-> 0]
RequeueDefault == [kind |-> "default", minutes |-> 0]
AwaitChange == [kind |-> "await", minutes |-> 0]
RequeueBackoff(m) == [kind |-> "backoff", minutes |-> m]

\* handle_reconciliation_error giving up when the lock is poisoned.
HandleReconciliationErrorGivesUp(states, key, lockPoisoned) ==
    IF lockPoisoned
    THEN [states |-> states, action |-> AwaitChange]
    ELSE LET state == IF states[key].present THEN states[key]
                      ELSE [NoBackoffState EXCEPT !.present = TRUE]
             m == NextBackoffMinutes(state.backoff)
         IN  [states |-> [states EXCEPT ![key] =
                             [state EXCEPT !.error_count = @ + 1, !.backoff.index = @ + 1]],
              action |-> RequeueBackoff(m)]

\* handle_reconciliation_error: the new backoff_states and the Action returned.
HandleReconciliationError(states, key, lockPoisoned) ==
    IF lockPoisoned
    THEN [states |-> states, action |-> RequeueDefault]
    ELSE LET state == IF states[key].present THEN states[key]
                      ELSE [NoBackoffState EXCEPT !.present = TRUE]
             m == NextBackoffMinutes(state.backoff)
         IN  [states |-> [states EXCEPT ![key] =
                             [state EXCEPT !.error_count = @ + 1, !.backoff.index = @ + 1]],
              action |-> RequeueBackoff(m)]

\* A successful reconciliation that leaves the backoff state as it is.
ResetBackoffKeeps(states, key) == states

\* A successful reconciliation resets the backoff state of its resource.
ResetBackoff(states, key) ==
    IF states[key].present
    THEN [states EXCEPT ![key] = [@ EXCEPT !.error_count = 0, !.backoff.index = 0]]
    ELSE states

\* calculate_progressive_backoff, in minutes.
CalculateProgressiveBackoff(error_count) ==
    CASE error_count = 0 -> 1
      [] error_count = 1 -> 1
      [] error_count = 2 -> 2
      [] error_count = 3 -> 3
      [] error_count = 4 -> 5
      [] error_count = 5 -> 8
      [] error_count = 6 -> 13
      [] error_count = 7 -> 21
      [] error_count = 8 -> 34
      [] error_count = 9 -> 55
      [] OTHER -> 60

\* ------------------------------------------------------- cache directories
\* Characters sanitize_path_component keeps; every other one becomes "_".
SafeChars ==
    {"a", "b", "c", "d", "e", "f", "g", "h", "i", "j", "k", "l", "m", "n", "o", "p", "q",
     "r", "s", "t", "u", "v", "w", "x", "y", "z",
     "A", "B", "C", "D", "E", "F", "G", "H", "I", "J", "K", "L", "M", "N", "O", "P", "Q",
     "R", "S", "T", "U", "V", "W", "X", "Y", "Z",
     "0", "1", "2", "3", "4", "5", "6", "7", "8", "9", "-", "_"}

SanitizePathComponent(str) ==
    [i \in 1..Len(str) |-> IF str[i] \in SafeChars THEN str[i] ELSE "_"]

\* Cache directory of a Flux artifact:
\* flux-artifact/{namespace}/{name}/{branch}-sha-{short sha} of the GitRepository.
FluxCachePath(source, revision) ==
    <<"flux-artifact", SanitizePathComponent(source.namespace),
      SanitizePathComponent(source.name), RevisionDir(revision)>>

\* targetRevision of the Application as text; without one it is HEAD.
TargetRevision(t) == IF t = 0 THEN <<"H", "E", "A", "D">> ELSE <<"v", ToString(t)>>

\* repo_hash: the md5 digest of "{namespace}-{name}-{targetRevision}", taken
\* as free of collisions.
RepoHash(source, target_revision) ==
    <<"md5", source.namespace \o <<"-">> \o source.name \o <<"-">> \o target_revision>>

\* Clone directory of an ArgoCD Application:
\* argocd-repo/{namespace}/{name}/{repo_hash}.
ArgoCachePath(source, target_revision) ==
    <<"argocd-repo", SanitizePathComponent(source.namespace),
      SanitizePathComponent(source.name), RepoHash(source, target_revision)>>

\* Cache directory the fetch of a source at revision r resolves to.
ResolvedCachePath(source, r) ==
    IF source.kind = "GitRepository"
    THEN FluxCachePath(source, Revision(r))
    ELSE ArgoCachePath(source, TargetRevision(r))

\* targetRevision values of the Application (0: none given).
Targets == 0..MaxTarget

\* Clone directories of the Application the reconciliation follows.
ArgoDirs == {ArgoCachePath(ArgoSource, TargetRevision(t)) : t \in Targets}

NoPath == <<>>

\* --------------------------------------------------------- initial states
InitReconcile ==
    /\ gitRepo = [exists |-> TRUE, rev |-> 1]
    /\ disk = [d \in RevDirs |-> NoDir]
    /\ lru = <<>>
    /\ provider = [s \in Services |-> 0]
    /\ triggerUpdate = FALSE
    /\ kustomize = FALSE
    /\ status = NoStatus
    /\ config = NoStatus
    /\ pc = "idle"
    /\ repoSnap = NoSnap
    /\ downloaded = 0
    /\ fetchRes = None
    /\ fetchErr = None
    /\ artifactResult = None
    /\ svc = 0
    /\ secretsSynced = 0
    /\ synced = [s \in Services |-> 0]
    /\ calls = [s \in Services |-> NoCall]
    /\ provHeld = [s \in Services |-> 0]
    /\ result = None

\* The variables of the watch loop, of the error policy and of the sources,
\* at rest: the startup pass is over, the loop runs, nothing is queued, and
\* every SMC refers to the same source.
InitLoopAtRest ==
    /\ startup = {}
    /\ loopStarted = TRUE
    /\ queue = {}
    /\ running = [s \in SMCs |-> "none"]
    /\ overlaps = [s \in SMCs |-> FALSE]
    /\ timer = [s \in SMCs |-> 0]
    /\ outcome = [s \in SMCs |-> None]

InitPolicy ==
    /\ backoff_states = [k \in Keys |-> NoBackoffState]
    /\ action = [s \in SMCs |-> NoAction]
    /\ poisoned = FALSE

InitArgoDisk ==
    /\ application = [exists |-> TRUE, source |-> TRUE, target |-> 0]
    /\ argoDisk = [d \in ArgoDirs |-> NoDir]
    /\ argoLru = <<>>
    /\ remoteHead = [t \in Targets |-> 1]

\* sync_secrets is not running.
InitSyncAtRest ==
    /\ syncPc = "idle"
    /\ fileSets = 0
    /\ fileIdx = 0
    /\ fileError = [i \in FileSetIds |-> NoError]
    /\ fileWrites = [i \in FileSetIds |-> 0]
    /\ syncResult = None

\* No status patch call has been made and no reconciliation holds the object.
InitStatusAtRest ==
    /\ now = 0
    /\ patchPc = "idle"
    /\ suspend = FALSE
    /\ runs = 0
    /\ lastCall = NoPatchCall

\* The reconcile annotation is absent and nothing waits.
InitManualAtRest ==
    /\ annotation = [s \in SMCs |-> 0]
    /\ handed = [s \in SMCs |-> 0]
    /\ pending = [s \in SMCs |-> FALSE]
    /\ manualPc = [s \in SMCs |-> "idle"]
    /\ manualRuns = [s \in SMCs |-> 0]
    /\ manualOk = [s \in SMCs |-> FALSE]

\* The controller has started where no key secret exists: load_sops_private_key
\* found none, and the watch has delivered nothing yet.
InitKeyAtRest ==
    /\ secrets = [ref \in SecretRefs |-> NoSecret]
    /\ watchEvents = <<>>
    /\ sops_private_key = 0
    /\ lastValid = 0
    /\ lastEvent = NoEvent

\* The task of start_sops_key_watch has been spawned and is about to verify
\* RBAC; nobody holds the key mutex.
InitWatchAtRest ==
    /\ watchPc = "verify"
    /\ retry_count = 0
    /\ slept = 0
    /\ rbacOk = TRUE
    /\ fetched = NoFetch
    /\ keyLock = None

\* No sops process has failed yet.
InitSopsAtRest ==
    /\ exit_code = Absent
    /\ stderr = <<>>
    /\ sopsError = NoError

\* No watch stream has been started yet.
InitStreamAtRest ==
    /\ watch_backoff = 0
    /\ max_backoff_ms = 0
    /\ streamResult = NoStreamResult

\* No other reconciliation is fetching.
InitPeerAtRest ==
    /\ peerPc = "idle"
    /\ peerRev = 0

InitComponentsAtRest ==
    /\ InitSyncAtRest
    /\ InitStatusAtRest
    /\ InitManualAtRest
    /\ InitKeyAtRest
    /\ InitWatchAtRest
    /\ InitSopsAtRest
    /\ InitStreamAtRest
    /\ InitPeerAtRest

Init ==
    /\ InitReconcile
    /\ InitLoopAtRest
    /\ InitPolicy
    /\ InitArgoDisk
    /\ InitComponentsAtRest
    /\ sourceRef = [s \in SMCs |-> FluxSource]
    /\ cachePathOf = [s \in SMCs |-> NoPath]

\* Locals of a reconciliation, as they are before it starts.
ResetLocals ==
    /\ repoSnap' = NoSnap
    /\ downloaded' = 0
    /\ fetchRes' = None
    /\ fetchErr' = None
    /\ artifactResult' = None
    /\ svc' = 0
    /\ secretsSynced' = 0
    /\ synced' = [s \in Services |-> 0]
    /\ calls' = [s \in Services |-> NoCall]
    /\ result' = None
    /\ config' = NoStatus
    /\ provHeld' = [s \in Services |-> 0]
    /\ triggerUpdate' = FALSE
    /\ kustomize' = FALSE

\* ------------------------------------------------------------ environment
\* The source controller publishes a revision, or the GitRepository is
\* created or deleted.
GitRepositoryChange(revs) ==
    /\ pc = "idle"
    /\ \E e \in BOOLEAN, r \in 0..revs :
          /\ [exists |-> e, rev |-> IF e THEN r ELSE 0] # gitRepo
          /\ gitRepo' = [exists |-> e, rev |-> IF e THEN r ELSE 0]
    /\ UNCHANGED <<disk, lru, provider, triggerUpdate, kustomize, status, config, pc,
                   repoSnap, downloaded, fetchRes, fetchErr, artifactResult, svc,
                   secretsSynced, synced, calls, provHeld, result>>
    /\ UNCHANGED otherVars

\* Somebody edits or deletes a secret directly at the provider.
ProviderChange ==
    /\ pc = "idle"
    /\ \E s \in Services, v \in 0..MaxVal :
          /\ provider[s] # v
          /\ provider' = [provider EXCEPT ![s] = v]
    /\ UNCHANGED <<gitRepo, disk, lru, triggerUpdate, kustomize, status, config, pc,
                   repoSnap, downloaded, fetchRes, fetchErr, artifactResult, svc,
                   secretsSynced, synced, calls, provHeld, result>>
    /\ UNCHANGED otherVars

\* ---------------------------------------------------------- reconciliation
\* The controller hands the SMC object to reconcile(); its status is the one
\* persisted at that moment and is not refreshed while the reconciliation runs.
StartReconcile ==
    /\ pc = "idle"
    /\ \A s \in Services : status.sync[s] < MaxCount
    /\ config' = status
    /\ provHeld' = provider
    /\ pc' = "resolve"
    /\ UNCHANGED <<gitRepo, disk, lru, provider, triggerUpdate, kustomize, status,
                   repoSnap, downloaded, fetchRes, fetchErr, artifactResult, svc,
                   secretsSynced, synced, calls, result>>
    /\ UNCHANGED otherVars

\* The result arm with a failed fetch passed on as a Path.
FluxResultAlwaysPath(ok, snap) == "Path"

\* resolve_artifact_path, the arm that handles the result of
\* get_flux_artifact_path: Ok is a Path; an Err is AwaitChange when the
\* GitRepository is not Ready and Reconciling, and Error otherwise.
FluxResult(ok, snap) ==
    IF ok THEN "Path"
    ELSE IF ~snap.ready /\ snap.reconciling THEN "AwaitChange"
    ELSE "Error"

\* The status patch that goes with the result of the fetch.
FluxResultStatus(st, cfg, ok, snap) ==
    IF ok THEN st
    ELSE IF ~snap.ready /\ snap.reconciling
    THEN UpdateStatusPhase(st, cfg, "Pending",
                           "GitRepository is reconciling, waiting for artifact")
    ELSE IF ~snap.ready
    THEN UpdateStatusPhase(st, cfg, "Failed", "GitRepository not ready")
    ELSE UpdateStatusPhase(st, cfg, "Failed", "Failed to get artifact path")

\* get_flux_artifact_path returns; resolve_artifact_path turns the result
\* into an ArtifactPathResult. The Ready and Reconciling conditions of the
\* GitRepository object are whatever the source controller has set; the code
\* reads them on an error only.
FetchReturn(ok, err) ==
    /\ fetchRes' = IF ok THEN "ok" ELSE "err"
    /\ fetchErr' = err
    /\ \E rdy \in BOOLEAN, rec \in BOOLEAN :
          LET snap == [repoSnap EXCEPT !.ready = rdy, !.reconciling = rec]
          IN  /\ repoSnap' = snap
              /\ artifactResult' = FluxResult(ok, snap)
              /\ status' = FluxResultStatus(status, config, ok, snap)
    /\ pc' = "resolved"

\* resolve_artifact_path up to the read of the GitRepository: the Cloning
\* patch, then get_flux_git_repository, which finds the object, gets a 404 or
\* fails otherwise.
GetFluxGitRepository ==
    /\ pc = "resolve"
    /\ sourceRef[Self].kind = "GitRepository"
    /\ LET st1 == UpdateStatusPhase(status, config, "Cloning",
                                    "Fetching GitRepository artifact")
       IN  \/ /\ gitRepo.exists
              /\ repoSnap' = [NoSnap EXCEPT !.rev = gitRepo.rev]
              /\ status' = st1
              /\ pc' = "fetch"
              /\ UNCHANGED <<artifactResult, fetchErr>>
           \/ /\ ~gitRepo.exists
              /\ status' = UpdateStatusPhase(st1, config, "Pending",
                               "GitRepository not found, waiting for creation")
              /\ artifactResult' = "AwaitChange"
              /\ fetchErr' = "not found"
              /\ pc' = "resolved"
              /\ UNCHANGED repoSnap
           \/ /\ status' = UpdateStatusPhase(st1, config, "Failed",
                               "Clone failed, repo unavailable")
              /\ artifactResult' = "Error"
              /\ fetchErr' = "get failed"
              /\ pc' = "resolved"
              /\ UNCHANGED repoSnap
    /\ UNCHANGED <<gitRepo, disk, lru, provider, triggerUpdate, kustomize, config,
                   downloaded, fetchRes, svc, secretsSynced, synced,
                   calls, provHeld, result>>
    /\ UNCHANGED otherVars

CachePath == RevisionDir(Revision(repoSnap.rev))

\* get_flux_artifact_path up to the HTTP request: no artifact in the status is
\* an error; a cached revision directory is returned; otherwise the directory
\* is created.
FluxFetchBegin ==
    /\ pc = "fetch"
    /\ IF repoSnap.rev = 0
       THEN /\ FetchReturn(FALSE, "no artifact in status")
            /\ UNCHANGED <<disk, lru>>
       ELSE IF IsCached(disk[CachePath])
       THEN /\ FetchReturn(TRUE, None)
            /\ UNCHANGED <<disk, lru>>
       ELSE /\ disk' = [disk EXCEPT ![CachePath].exists = TRUE]
            /\ lru' = IF disk[CachePath].exists THEN lru ELSE Touch(lru, CachePath)
            /\ pc' = "send"
            /\ UNCHANGED <<status, artifactResult, fetchRes, fetchErr, repoSnap>>
    /\ UNCHANGED <<gitRepo, provider, triggerUpdate, kustomize, config, downloaded,
                   svc, secretsSynced, synced, calls, provHeld, result>>
    /\ UNCHANGED otherVars

\* client.get(url).send(): a transport error and a non-2xx status are
\* errors; a 2xx response creates artifact.tar.gz in the cache directory.
HttpSend ==
    /\ pc = "send"
    /\ \/ /\ \E e \in {"send failed", "HTTP status"} : FetchReturn(FALSE, e)
          /\ UNCHANGED <<disk, lru, downloaded>>
       \/ /\ disk' = [disk EXCEPT ![CachePath].tar = TRUE]
          /\ lru' = Touch(lru, CachePath)
          /\ downloaded' = 0
          /\ pc' = "stream"
          /\ UNCHANGED <<status, artifactResult, fetchRes, fetchErr, repoSnap>>
    /\ UNCHANGED <<gitRepo, provider, triggerUpdate, kustomize, config, svc,
                   secretsSynced, synced, calls, provHeld, result>>
    /\ UNCHANGED otherVars

\* One turn of the download loop: a chunk is appended to the file, or the
\* stream fails and the function returns with the file left as it is.
StreamChunk ==
    /\ pc = "stream"
    /\ \/ /\ downloaded < MaxBody
          /\ downloaded' = downloaded + 1
          /\ UNCHANGED <<status, artifactResult, fetchRes, fetchErr, repoSnap, pc>>
       \/ /\ FetchReturn(FALSE, "chunk read failed")
          /\ UNCHANGED downloaded
    /\ UNCHANGED <<gitRepo, disk, lru, provider, triggerUpdate, kustomize, config,
                   svc, secretsSynced, synced, calls, provHeld, result>>
    /\ UNCHANGED otherVars

\* The checks on the downloaded file, in the order of the code: size against
\* Content-Length, non-empty, sha256 against status.artifact.digest (0: the
\* status has no digest), gzip magic bytes (skipped when the file is too
\* short to read them).
ValidateDownload(expected_size, downloaded_size, digest, computed_hash, magic) ==
    IF expected_size # Absent /\ downloaded_size # expected_size THEN "partial download"
    ELSE IF downloaded_size = 0 THEN "empty download"
    ELSE IF digest # 0 /\ digest # computed_hash THEN "checksum mismatch"
    ELSE IF downloaded_size >= MagicLen /\ magic # GzipMagic THEN "invalid file format"
    ELSE "valid"

ValidationErrors == {"partial download", "empty download", "checksum mismatch",
                     "invalid file format"}

\* A failed check that returns without removing the file.
RejectDownloadKeepsFile(dir) == dir

\* What a failed check leaves of the cache directory: the file is removed.
RejectDownload(dir) == [dir EXCEPT !.tar = FALSE]

\* The body has ended: the file is validated; a failed check removes the file
\* and returns an error.
StreamEnd ==
    /\ pc = "stream"
    /\ \E expected \in {Absent} \cup downloaded..MaxBody,
          digest \in 0..NumHashes, hash \in Hashes, magic \in Magics :
          LET v == ValidateDownload(expected, downloaded, digest, hash, magic)
          IN  IF v = "valid"
              THEN /\ pc' = "extract"
                   /\ UNCHANGED <<disk, lru, status, artifactResult, fetchRes, fetchErr,
                                  repoSnap>>
              ELSE /\ disk' = [disk EXCEPT ![CachePath] = RejectDownload(@)]
                   /\ lru' = Touch(lru, CachePath)
                   /\ FetchReturn(FALSE, v)
    /\ UNCHANGED <<gitRepo, provider, triggerUpdate, kustomize, config, downloaded,
                   svc, secretsSynced, synced, calls, provHeld, result>>
    /\ UNCHANGED otherVars

\* The check that follows a successful tar run: the extraction counts as
\* empty when read_dir finds no entry in the cache directory.
ExtractedEmpty(dir) == ~HasEntries(dir)

\* tar -xzf artifact.tar.gz -C cache_path. A tar that cannot be started
\* returns the error with the disk as it is. A failed run removes the file
\* and the directory. After a successful run the directory is checked for
\* entries, the tarball is removed and old revisions are cleaned up. The
\* archive holds the service directories of the repository, or no entry.
Extract ==
    /\ pc = "extract"
    /\ \E spawned \in BOOLEAN, tarOk \in BOOLEAN, entries \in {0, NumServices} :
          /\ tarOk => (spawned /\ downloaded >= MagicLen)
          /\ ~tarOk => entries = 0
          /\ LET extracted == [disk[CachePath] EXCEPT !.tree = entries]
             IN  IF ~spawned
                 THEN /\ FetchReturn(FALSE, "tar not executed")
                      /\ UNCHANGED <<disk, lru>>
                 ELSE IF ~tarOk
                 THEN /\ disk' = [disk EXCEPT ![CachePath] = NoDir]
                      /\ lru' = Forget(lru, CachePath)
                      /\ FetchReturn(FALSE, "extraction failed")
                 ELSE IF ExtractedEmpty(extracted)
                 THEN /\ disk' = [disk EXCEPT ![CachePath] = NoDir]
                      /\ lru' = Forget(lru, CachePath)
                      /\ FetchReturn(FALSE, "empty extraction")
                 ELSE /\ disk' = CleanupDisk(
                                    [disk EXCEPT ![CachePath] =
                                        [extracted EXCEPT !.tar = FALSE,
                                            !.rev = IF entries >= 1 THEN repoSnap.rev
                                                    ELSE @]],
                                    Touch(lru, CachePath))
                      /\ lru' = CleanupLru(Touch(lru, CachePath))
                      /\ FetchReturn(TRUE, None)
    /\ UNCHANGED <<gitRepo, provider, triggerUpdate, kustomize, config, downloaded,
                   svc, secretsSynced, synced, calls, provHeld, result>>
    /\ UNCHANGED otherVars

\* The process shuts down while the fetch waits on the network or on tar:
\* the reconciliation is dropped and the disk stays as it is.
CancelFetch ==
    /\ pc \in {"send", "stream", "extract"}
    /\ pc' = "idle"
    /\ ResetLocals
    /\ UNCHANGED <<gitRepo, disk, lru, provider, status>>
    /\ UNCHANGED otherVars

\* ------------------------------------------------------------- sync engine
\* The tree the sync reads: the revision directory returned by the fetch.
ArtifactTree == disk[CachePath]

\* The per-secret step without the triggerUpdate gate: drift is always written.
SyncKeyIgnoresTrigger(v, cur, prior, trig, getOk, setOk) ==
    LET r == CreateOrUpdateSecret(cur, v, getOk, setOk)
    IN  [call |-> [made |-> TRUE, value |-> v, prior |-> cur,
                   changed |-> r.changed, wrote |-> r.wrote, ok |-> r.ok],
         held |-> r.held,
         count |-> IF r.ok /\ r.changed THEN prior + 1 ELSE prior,
         counted |-> r.ok]

\* One projected secret with value v against the provider value cur and the
\* previous updateCount prior: drift with triggerUpdate off is logged and not
\* written; otherwise create_or_update_secret runs and a change raises the
\* updateCount by one.
SyncKey(v, cur, prior, trig, getOk, setOk) ==
    IF cur # 0 /\ cur # v /\ ~trig
    THEN [call |-> NoCall, held |-> cur, count |-> prior, counted |-> TRUE]
    ELSE LET r == CreateOrUpdateSecret(cur, v, getOk, setOk)
         IN  [call |-> [made |-> TRUE, value |-> v, prior |-> cur,
                        changed |-> r.changed, wrote |-> r.wrote, ok |-> r.ok],
              held |-> r.held,
              count |-> IF r.ok /\ r.changed THEN prior + 1 ELSE prior,
              counted |-> r.ok]

\* The reconciliation after resolve_artifact_path: a Path goes on to the
\* sync, which reads the flags of the spec and starts from the previous sync
\* state; AwaitChange and Error end the reconciliation.
AfterArtifact ==
    /\ pc = "resolved"
    /\ IF artifactResult = "Path"
       THEN /\ pc' = "sync"
            /\ synced' = config.sync
            /\ triggerUpdate' \in BOOLEAN
            /\ kustomize' \in BOOLEAN
            /\ UNCHANGED result
       ELSE /\ pc' = "done"
            /\ result' = IF artifactResult = "AwaitChange" THEN "await" ELSE "error"
            /\ UNCHANGED <<synced, triggerUpdate, kustomize>>
    /\ UNCHANGED <<gitRepo, disk, lru, provider, status, config, repoSnap, downloaded,
                   fetchRes, fetchErr, artifactResult, svc, secretsSynced, calls,
                   provHeld>>
    /\ UNCHANGED otherVars

\* sync_secrets, raw file mode, find_application_files: one file set per
\* service directory of the tree, or an error that fails the reconciliation.
FindApplicationFiles ==
    /\ pc = "sync"
    /\ ~kustomize
    /\ \/ /\ svc' = 1
          /\ pc' = "services"
          /\ UNCHANGED <<status, result>>
       \/ /\ status' = UpdateStatusPhase(status, config, "Failed",
                                         "Failed to find application files")
          /\ result' = "error"
          /\ pc' = "done"
          /\ UNCHANGED svc
    /\ UNCHANGED <<gitRepo, disk, lru, provider, triggerUpdate, kustomize, config,
                   repoSnap, downloaded, fetchRes, fetchErr, artifactResult,
                   secretsSynced, synced, calls, provHeld>>
    /\ UNCHANGED otherVars

\* sync_secrets, raw file mode, one turn of the loop over the file sets:
\* process_application_files succeeds, fails with a transient error (the
\* reconciliation returns TransientError) or fails permanently (the loop goes
\* on with the next service).
ProcessService ==
    /\ pc = "services"
    /\ svc <= ArtifactTree.tree
    /\ \/ \E getOk \in BOOLEAN, setOk \in BOOLEAN :
            LET k == SyncKey(GitValue(repoSnap.rev, svc), provider[svc],
                             synced[svc], triggerUpdate, getOk, setOk)
            IN  /\ provider' = [provider EXCEPT ![svc] = k.held]
                /\ synced' = [synced EXCEPT ![svc] = k.count]
                /\ calls' = [calls EXCEPT ![svc] = k.call]
                /\ secretsSynced' = secretsSynced + (IF k.counted THEN 1 ELSE 0)
                /\ svc' = svc + 1
                /\ UNCHANGED <<status, result, pc>>
       \/ /\ status' = UpdateStatusPhase(status, config, "Retrying",
                                         "Transient error. Retrying...")
          /\ result' = "transient"
          /\ pc' = "done"
          /\ UNCHANGED <<provider, synced, calls, secretsSynced, svc>>
       \/ /\ status' = UpdateStatusPhase(status, config, "PartialFailure",
                                         "Failed to process service")
          /\ svc' = svc + 1
          /\ UNCHANGED <<provider, synced, calls, secretsSynced, result, pc>>
    /\ UNCHANGED <<gitRepo, disk, lru, triggerUpdate, kustomize, config, repoSnap,
                   downloaded, fetchRes, fetchErr, artifactResult, provHeld>>
    /\ UNCHANGED otherVars

\* sync_secrets, raw file mode, the loop is over: Success(secrets_synced).
ServicesDone ==
    /\ pc = "services"
    /\ svc > ArtifactTree.tree
    /\ pc' = "status"
    /\ UNCHANGED <<gitRepo, disk, lru, provider, triggerUpdate, kustomize, status,
                   config, repoSnap, downloaded, fetchRes, fetchErr, artifactResult,
                   svc, secretsSynced, synced, calls, provHeld, result>>
    /\ UNCHANGED otherVars

\* sync_secrets, kustomize build mode: extract_secrets_from_kustomize and
\* process_kustomize_secrets over all the secrets at once; an error of either
\* fails the reconciliation. done is the number of secrets handled before
\* process_kustomize_secrets returns.
SyncKustomize ==
    /\ pc = "sync"
    /\ kustomize
    /\ \/ /\ status' = UpdateStatusPhase(status, config, "Failed",
                                         "Failed to extract secrets from kustomize")
          /\ result' = "error"
          /\ pc' = "done"
          /\ UNCHANGED <<provider, synced, calls, secretsSynced>>
       \/ \E done \in 0..ArtifactTree.tree,
             getOk \in [Services -> BOOLEAN], setOk \in [Services -> BOOLEAN] :
            LET k(s) == SyncKey(GitValue(repoSnap.rev, s), provider[s],
                                synced[s], triggerUpdate, getOk[s], setOk[s])
                n == Cardinality({s \in 1..done : k(s).counted})
            IN  /\ \A s \in Services : s > done => (getOk[s] /\ setOk[s])
                /\ provider' = [s \in Services |->
                                   IF s <= done THEN k(s).held ELSE provider[s]]
                /\ synced' = [s \in Services |->
                                   IF s <= done THEN k(s).count ELSE synced[s]]
                /\ calls' = [s \in Services |->
                                   IF s <= done THEN k(s).call ELSE calls[s]]
                /\ secretsSynced' = secretsSynced + n
                /\ IF done = ArtifactTree.tree
                   THEN /\ pc' = "status"
                        /\ UNCHANGED <<status, result>>
                   ELSE /\ status' = UpdateStatusPhase(status, config, "Failed",
                                         "Failed to process kustomize secrets")
                        /\ result' = "error"
                        /\ pc' = "done"
    /\ UNCHANGED <<gitRepo, disk, lru, triggerUpdate, kustomize, config, repoSnap,
                   downloaded, fetchRes, fetchErr, artifactResult, svc, provHeld>>
    /\ UNCHANGED otherVars

\* The reconciliation after Success(count): update_status with the count and
\* the sync state.
FinishSuccess ==
    /\ pc = "status"
    /\ status' = UpdateStatus(status, config, secretsSynced, synced)
    /\ result' = "ok"
    /\ pc' = "done"
    /\ UNCHANGED <<gitRepo, disk, lru, provider, triggerUpdate, kustomize, config,
                   repoSnap, downloaded, fetchRes, fetchErr, artifactResult, svc,
                   secretsSynced, synced, calls, provHeld>>
    /\ UNCHANGED otherVars

\* reconcile() has returned its Action; the controller waits for the next
\* trigger.
Requeue ==
    /\ pc = "done"
    /\ pc' = "idle"
    /\ ResetLocals
    /\ UNCHANGED <<gitRepo, disk, lru, provider, status>>
    /\ UNCHANGED otherVars

\* The artifact pipeline on its own: resolve_artifact_path has returned and
\* the caller takes the result.
FetchDone ==
    /\ pc = "resolved"
    /\ pc' = "idle"
    /\ ResetLocals
    /\ UNCHANGED <<gitRepo, disk, lru, provider, status>>
    /\ UNCHANGED otherVars

\* ------------------------------------------------------------------ ArgoCD
\* A clone of the repository with its .git directory, checked out at commit.
ArgoClone(commit) == [exists |-> TRUE, tar |-> FALSE, tree |-> 1, rev |-> commit]

\* git -C clone rev-parse name, for HEAD and for the target revision: both
\* are resolved in the clone, where they name the commit checked out; the
\* remote is not asked.
RevParse(clone, name, remote) == clone.rev

\* A commit is pushed to the branch t of the repository.
RemotePush ==
    /\ pc = "idle"
    /\ \E t \in Targets :
          /\ remoteHead[t] < MaxCommits
          /\ remoteHead' = [remoteHead EXCEPT ![t] = @ + 1]
    /\ UNCHANGED <<application, argoDisk, argoLru>>
    /\ UNCHANGED <<reconcileVars, loopVars, policyVars, cacheVars, componentVars>>

\* The Application is created, deleted or edited.
ApplicationChange ==
    /\ pc = "idle"
    /\ \E e \in BOOLEAN, src \in BOOLEAN, t \in Targets :
          LET app == [exists |-> e, source |-> e /\ src, target |-> IF e /\ src THEN t ELSE 0]
          IN  /\ app # application
              /\ application' = app
    /\ UNCHANGED <<argoDisk, argoLru, remoteHead>>
    /\ UNCHANGED <<reconcileVars, loopVars, policyVars, cacheVars, componentVars>>

\* Clone directory of the Application as it is now.
ClonePath == ArgoCachePath(sourceRef[Self], TargetRevision(application.target))

\* The Application arm of resolve_artifact_path: get_argocd_artifact_path
\* reads the Application, returns the clone directory when it holds the
\* target revision, removes a stale one, clones, and cleans up old clones
\* after a clone that succeeded. Every failure is passed on as Error, with
\* no status patch.
GetArgocdArtifactPath ==
    /\ pc = "resolve"
    /\ sourceRef[Self].kind = "Application"
    /\ \E getOk \in BOOLEAN, parsed \in BOOLEAN, removeOk \in BOOLEAN,
          clone \in {"cloned", "clone failed", "checkout failed"} :
          LET target_revision == TargetRevision(application.target)
              head == remoteHead[application.target]
              current_rev == RevParse(argoDisk[ClonePath], <<"H", "E", "A", "D">>, head)
              target_rev == RevParse(argoDisk[ClonePath], target_revision, head)
              revsMatch == parsed /\ current_rev = target_rev
          IN
          IF ~application.exists \/ ~getOk
          THEN /\ fetchRes' = "err"
               /\ fetchErr' = IF application.exists THEN "get failed" ELSE "not found"
               /\ artifactResult' = "Error"
               /\ UNCHANGED <<argoDisk, argoLru>>
          ELSE IF ~application.source
          THEN /\ fetchRes' = "err"
               /\ fetchErr' = "no source"
               /\ artifactResult' = "Error"
               /\ UNCHANGED <<argoDisk, argoLru>>
          ELSE IF argoDisk[ClonePath].exists /\ revsMatch
          THEN /\ fetchRes' = "ok"
               /\ fetchErr' = None
               /\ artifactResult' = "Path"
               /\ UNCHANGED <<argoDisk, argoLru>>
          ELSE LET stale == argoDisk[ClonePath].exists /\ ~removeOk
                   dk == IF stale THEN argoDisk ELSE [argoDisk EXCEPT ![ClonePath] = NoDir]
                   l == IF stale THEN argoLru ELSE Forget(argoLru, ClonePath)
               IN  IF stale \/ clone = "clone failed"
                   THEN /\ argoDisk' = dk
                        /\ argoLru' = l
                        /\ fetchRes' = "err"
                        /\ fetchErr' = "clone failed"
                        /\ artifactResult' = "Error"
                   ELSE IF clone = "checkout failed"
                   THEN /\ argoDisk' = [dk EXCEPT ![ClonePath] = ArgoClone(head)]
                        /\ argoLru' = Touch(l, ClonePath)
                        /\ fetchRes' = "err"
                        /\ fetchErr' = "checkout failed"
                        /\ artifactResult' = "Error"
                   ELSE /\ argoDisk' = CleanupDisk([dk EXCEPT ![ClonePath] = ArgoClone(head)],
                                                   Touch(l, ClonePath))
                        /\ argoLru' = CleanupLru(Touch(l, ClonePath))
                        /\ fetchRes' = "ok"
                        /\ fetchErr' = None
                        /\ artifactResult' = "Path"
    /\ pc' = "resolved"
    /\ UNCHANGED <<gitRepo, disk, lru, provider, triggerUpdate, kustomize, status, config,
                   repoSnap, downloaded, svc, secretsSynced, synced, calls, provHeld,
                   result, application, remoteHead>>
    /\ UNCHANGED <<loopVars, policyVars, cacheVars, componentVars>>

\* ---------------------------------------------------------- specifications
\* The whole reconciliation, over SyncRevs revisions.
Next ==
    \/ GitRepositoryChange(SyncRevs)
    \/ ProviderChange
    \/ StartReconcile
    \/ GetFluxGitRepository
    \/ FluxFetchBegin
    \/ HttpSend
    \/ StreamChunk
    \/ StreamEnd
    \/ Extract
    \/ CancelFetch
    \/ AfterArtifact
    \/ FindApplicationFiles
    \/ ProcessService
    \/ ServicesDone
    \/ SyncKustomize
    \/ FinishSuccess
    \/ Requeue

Spec == Init /\ [][Next]_vars

\* resolve_artifact_path called again and again, over MaxRev revisions.
NextFetch ==
    \/ GitRepositoryChange(MaxRev)
    \/ StartReconcile
    \/ GetFluxGitRepository
    \/ FluxFetchBegin
    \/ HttpSend
    \/ StreamChunk
    \/ StreamEnd
    \/ Extract
    \/ CancelFetch
    \/ FetchDone

SpecFetch == Init /\ [][NextFetch]_vars

\* The source controller publishes the commit whose sha starts with the seven
\* digits of the sha of revision 1.
ShortShaTwinPublished ==
    /\ pc = "idle"
    /\ gitRepo # [exists |-> TRUE, rev |-> TwinRev]
    /\ gitRepo' = [exists |-> TRUE, rev |-> TwinRev]
    /\ UNCHANGED <<disk, lru, provider, triggerUpdate, kustomize, status, config, pc,
                   repoSnap, downloaded, fetchRes, fetchErr, artifactResult, svc,
                   secretsSynced, synced, calls, provHeld, result>>
    /\ UNCHANGED otherVars

\* resolve_artifact_path called again and again while the GitRepository moves
\* between revision 1 and that commit.
NextRevision ==
    \/ GitRepositoryChange(1)
    \/ ShortShaTwinPublished
    \/ StartReconcile
    \/ GetFluxGitRepository
    \/ FluxFetchBegin
    \/ HttpSend
    \/ StreamChunk
    \/ StreamEnd
    \/ Extract
    \/ CancelFetch
    \/ FetchDone

SpecRevision == Init /\ [][NextRevision]_vars

\* ------------------------------------------------------- a concurrent fetch
\* get_flux_artifact_path as the reconciliation of a second SMC runs it, on
\* the same GitRepository and at the same time: the steps that touch the
\* disk, along the path on which every step succeeds.
PeerPath == RevisionDir(Revision(peerRev))

PeerUnchanged ==
    /\ UNCHANGED <<gitRepo, provider, triggerUpdate, kustomize, status, config, pc,
                   repoSnap, downloaded, fetchRes, fetchErr, artifactResult, svc,
                   secretsSynced, synced, calls, provHeld, result>>
    /\ UNCHANGED <<loopVars, policyVars, cacheVars, argoVars, syncVars, statusVars,
                   manualVars, keyVars, watchVars, sopsVars, streamVars>>

\* The cache check; on a miss the revision directory is created.
PeerFetchBegin ==
    /\ peerPc = "idle"
    /\ gitRepo.exists /\ gitRepo.rev # 0
    /\ LET dir == RevisionDir(Revision(gitRepo.rev))
       IN  IF IsCached(disk[dir])
           THEN UNCHANGED <<disk, lru, peerPc, peerRev>>
           ELSE /\ disk' = [disk EXCEPT ![dir].exists = TRUE]
                /\ lru' = IF disk[dir].exists THEN lru ELSE Touch(lru, dir)
                /\ peerPc' = "send"
                /\ peerRev' = gitRepo.rev
    /\ PeerUnchanged

\* A 2xx response: artifact.tar.gz is created in the revision directory.
PeerHttpSend ==
    /\ peerPc = "send"
    /\ disk' = [disk EXCEPT ![PeerPath] = [@ EXCEPT !.exists = TRUE, !.tar = TRUE]]
    /\ lru' = Touch(lru, PeerPath)
    /\ peerPc' = "stream"
    /\ UNCHANGED peerRev
    /\ PeerUnchanged

\* The body has been written and has passed the checks.
PeerStreamEnd ==
    /\ peerPc = "stream"
    /\ peerPc' = "extract"
    /\ UNCHANGED <<disk, lru, peerRev>>
    /\ PeerUnchanged

\* tar has extracted the tree; the tarball is removed and old revisions are
\* cleaned up.
PeerExtract ==
    /\ peerPc = "extract"
    /\ LET extracted == [exists |-> TRUE, tar |-> FALSE, tree |-> NumServices,
                         rev |-> peerRev]
       IN  /\ disk' = CleanupDisk([disk EXCEPT ![PeerPath] = extracted],
                                  Touch(lru, PeerPath))
           /\ lru' = CleanupLru(Touch(lru, PeerPath))
    /\ peerPc' = "idle"
    /\ peerRev' = 0
    /\ PeerUnchanged

\* Two reconciliations fetch from one GitRepository at the same time.
NextPeer ==
    \/ GitRepositoryChange(1)
    \/ StartReconcile
    \/ GetFluxGitRepository
    \/ FluxFetchBegin
    \/ HttpSend
    \/ StreamChunk
    \/ StreamEnd
    \/ Extract
    \/ CancelFetch
    \/ FetchDone
    \/ PeerFetchBegin
    \/ PeerHttpSend
    \/ PeerStreamEnd
    \/ PeerExtract

SpecPeer == Init /\ [][NextPeer]_vars

\* resolve_artifact_path for an SMC whose source is an ArgoCD Application.
InitArgo ==
    /\ InitReconcile
    /\ InitLoopAtRest
    /\ InitPolicy
    /\ InitArgoDisk
    /\ InitComponentsAtRest
    /\ sourceRef = [s \in SMCs |-> ArgoSource]
    /\ cachePathOf = [s \in SMCs |-> NoPath]

NextArgo ==
    \/ ApplicationChange
    \/ StartReconcile
    \/ GetArgocdArtifactPath
    \/ FetchDone

SpecArgo == InitArgo /\ [][NextArgo]_vars

\* The same, with commits pushed to the branches between reconciliations.
NextBranch ==
    \/ RemotePush
    \/ ApplicationChange
    \/ StartReconcile
    \/ GetArgocdArtifactPath
    \/ FetchDone

SpecBranch == InitArgo /\ [][NextBranch]_vars

\* -------------------------------------------------------------- watch loop
\* run_watch_loop entered without waiting for the startup pass.
StartupPassNotAwaited(st, run) == TRUE

\* main awaits initialize(), which awaits reconcile_existing_resources, whose
\* loop awaits every reconcile(): the pass is over before run_watch_loop.
StartupPassAwaited(st, run) == st = {} /\ \A s \in SMCs : run[s] = "none"

\* A timer armed only by an Action that asks for a requeue.
PeriodicTimerArmedByRequeue(act) == act.kind # "await"

\* The periodic timer of an SMC runs whatever Action its reconciliation
\* returned.
PeriodicTimerArmed(act) == TRUE

\* reconcile_existing_resources takes the next item of the list; the one
\* before it has returned.
StartupReconcile(s) ==
    /\ ~loopStarted
    /\ s \in startup
    /\ \A t \in SMCs : running[t] = "none"
    /\ running' = [running EXCEPT ![s] = "startup"]
    /\ overlaps' = [overlaps EXCEPT ![s] = @ \/ running[s] # "none"]
    /\ UNCHANGED <<startup, loopStarted, queue, timer, outcome>>
    /\ UNCHANGED <<reconcileVars, policyVars, cacheVars, componentVars, argoVars>>

\* reconcile() of the startup pass returns: Ok or Err is logged and the
\* Action is dropped; a success has reset the backoff state of the resource.
StartupReturn(s) ==
    /\ running[s] = "startup"
    /\ running' = [running EXCEPT ![s] = "none"]
    /\ startup' = startup \ {s}
    /\ \E ok \in BOOLEAN :
          backoff_states' = IF ok THEN ResetBackoff(backoff_states, KeyOf(s))
                            ELSE backoff_states
    /\ UNCHANGED <<loopStarted, queue, overlaps, timer, outcome, action, poisoned>>
    /\ UNCHANGED <<reconcileVars, cacheVars, componentVars, argoVars>>

\* main enters run_watch_loop: the watch lists every object and the periodic
\* timers start.
EnterWatchLoop ==
    /\ ~loopStarted
    /\ StartupPassAwaited(startup, running)
    /\ loopStarted' = TRUE
    /\ queue' = SMCs
    /\ timer' = [s \in SMCs |-> ReconcileInterval]
    /\ UNCHANGED <<startup, running, overlaps, outcome>>
    /\ UNCHANGED <<reconcileVars, policyVars, cacheVars, componentVars, argoVars>>

\* A watch event, a manual trigger (an annotation written on the object) or
\* the end of a requeue delay asks for a reconciliation of s; requests for
\* an object already waiting are coalesced.
Trigger(s) ==
    /\ loopStarted
    /\ queue' = queue \cup {s}
    /\ UNCHANGED <<startup, loopStarted, running, overlaps, timer, outcome>>
    /\ UNCHANGED <<reconcileVars, policyVars, cacheVars, componentVars, argoVars>>

\* One tick of time: no armed timer is overdue.
Tick ==
    /\ loopStarted
    /\ \A s \in SMCs : PeriodicTimerArmed(action[s]) => timer[s] > 0
    /\ \E s \in SMCs : timer[s] > 0
    /\ timer' = [s \in SMCs |-> IF timer[s] > 0 THEN timer[s] - 1 ELSE 0]
    /\ UNCHANGED <<startup, loopStarted, queue, running, overlaps, outcome>>
    /\ UNCHANGED <<reconcileVars, policyVars, cacheVars, componentVars, argoVars>>

\* The periodic timer of s fires and is set again.
TimerFire(s) ==
    /\ loopStarted
    /\ timer[s] = 0
    /\ PeriodicTimerArmed(action[s])
    /\ queue' = queue \cup {s}
    /\ timer' = [timer EXCEPT ![s] = ReconcileInterval]
    /\ UNCHANGED <<startup, loopStarted, running, overlaps, outcome>>
    /\ UNCHANGED <<reconcileVars, policyVars, cacheVars, componentVars, argoVars>>

\* The loop starts the reconciliation of a waiting object, unless one it
\* started for that object is still running.
LoopReconcile(s) ==
    /\ loopStarted
    /\ s \in queue
    /\ running[s] # "loop"
    /\ running' = [running EXCEPT ![s] = "loop"]
    /\ overlaps' = [overlaps EXCEPT ![s] = @ \/ running[s] # "none"]
    /\ queue' = queue \ {s}
    /\ UNCHANGED <<startup, loopStarted, timer, outcome>>
    /\ UNCHANGED <<reconcileVars, policyVars, cacheVars, componentVars, argoVars>>

\* The reconciliation of s succeeds: the backoff state of s is reset and the
\* Action is a requeue after reconcileInterval.
ReconcileOk(s) ==
    /\ running[s] = "loop"
    /\ running' = [running EXCEPT ![s] = "none"]
    /\ outcome' = [outcome EXCEPT ![s] = "ok"]
    /\ backoff_states' = ResetBackoff(backoff_states, KeyOf(s))
    /\ action' = [action EXCEPT ![s] = RequeueInterval]
    /\ UNCHANGED <<startup, loopStarted, queue, overlaps, timer, poisoned>>
    /\ UNCHANGED <<reconcileVars, cacheVars, componentVars, argoVars>>

\* The reconciliation of s fails: the loop calls handle_reconciliation_error
\* and takes the Action it returns.
ReconcileError(s) ==
    /\ running[s] = "loop"
    /\ backoff_states[KeyOf(s)].error_count < MaxErrors
    /\ running' = [running EXCEPT ![s] = "none"]
    /\ outcome' = [outcome EXCEPT ![s] = "error"]
    /\ LET h == HandleReconciliationError(backoff_states, KeyOf(s), poisoned)
       IN  /\ backoff_states' = h.states
           /\ action' = [action EXCEPT ![s] = h.action]
    /\ UNCHANGED <<startup, loopStarted, queue, overlaps, timer, poisoned>>
    /\ UNCHANGED <<reconcileVars, cacheVars, componentVars, argoVars>>

\* The reconciliation of s finds its source missing or still reconciling
\* and returns Action::await_change().
ReconcileAwait(s) ==
    /\ running[s] = "loop"
    /\ running' = [running EXCEPT ![s] = "none"]
    /\ outcome' = [outcome EXCEPT ![s] = "await"]
    /\ action' = [action EXCEPT ![s] = AwaitChange]
    /\ UNCHANGED <<startup, loopStarted, queue, overlaps, timer, backoff_states, poisoned>>
    /\ UNCHANGED <<reconcileVars, cacheVars, componentVars, argoVars>>

\* A thread panics while it holds the backoff_states lock.
Poison ==
    /\ loopStarted
    /\ ~poisoned
    /\ poisoned' = TRUE
    /\ UNCHANGED <<backoff_states, action>>
    /\ UNCHANGED <<reconcileVars, loopVars, cacheVars, componentVars, argoVars>>

\* The process starts: the objects that exist are listed for the startup pass.
InitLoop ==
    /\ InitReconcile
    /\ InitPolicy
    /\ InitArgoDisk
    /\ InitComponentsAtRest
    /\ startup \in SUBSET SMCs
    /\ loopStarted = FALSE
    /\ queue = {}
    /\ running = [s \in SMCs |-> "none"]
    /\ overlaps = [s \in SMCs |-> FALSE]
    /\ timer = [s \in SMCs |-> 0]
    /\ outcome = [s \in SMCs |-> None]
    /\ sourceRef = [s \in SMCs |-> FluxSource]
    /\ cachePathOf = [s \in SMCs |-> NoPath]

\* The control loop with the error policy.
NextLoop ==
    \/ \E s \in SMCs : StartupReconcile(s)
    \/ \E s \in SMCs : StartupReturn(s)
    \/ EnterWatchLoop
    \/ \E s \in SMCs : Trigger(s)
    \/ Tick
    \/ \E s \in SMCs : TimerFire(s)
    \/ \E s \in SMCs : LoopReconcile(s)
    \/ \E s \in SMCs : ReconcileOk(s)
    \/ \E s \in SMCs : ReconcileError(s)
    \/ \E s \in SMCs : ReconcileAwait(s)
    \/ Poison

SpecLoop == InitLoop /\ [][NextLoop]_vars

\* The control loop where no reconciliation fails, with its scheduling: time
\* passes, a due timer fires, the loop starts what waits, and a reconciliation
\* returns.
NextTimer ==
    \/ \E s \in SMCs : StartupReconcile(s)
    \/ \E s \in SMCs : StartupReturn(s)
    \/ EnterWatchLoop
    \/ \E s \in SMCs : Trigger(s)
    \/ Tick
    \/ \E s \in SMCs : TimerFire(s)
    \/ \E s \in SMCs : LoopReconcile(s)
    \/ \E s \in SMCs : ReconcileOk(s)
    \/ \E s \in SMCs : ReconcileAwait(s)

SpecTimer ==
    /\ InitLoop
    /\ [][NextTimer]_vars
    /\ WF_vars(Tick)
    /\ \A s \in SMCs : WF_vars(StartupReconcile(s))
    /\ \A s \in SMCs : WF_vars(StartupReturn(s))
    /\ WF_vars(EnterWatchLoop)
    /\ \A s \in SMCs : WF_vars(TimerFire(s))
    /\ \A s \in SMCs : WF_vars(LoopReconcile(s))
    /\ \A s \in SMCs : WF_vars(ReconcileOk(s) \/ ReconcileAwait(s))

\* ------------------------------------------------------------- validation
\* str::trim of a kind.
Trim(kind) == IF kind = " GitRepository " THEN "GitRepository" ELSE kind

\* validate_source_ref_kind: GitRepository or Application, case-sensitive.
ValidateSourceRefKind(kind) == Trim(kind) \in {"GitRepository", "Application"}

\* validate_secret_manager_config, its checks of the sourceRef: the kind, and
\* a name and a namespace that are not empty.
ValidateSecretManagerConfig(ref) ==
    /\ ref.kind # ""
    /\ ValidateSourceRefKind(ref.kind)
    /\ ref.name # <<>>
    /\ ref.namespace # <<>>

\* The sourceRef values an object is written with.
EditedSources ==
    {FluxSource, [FluxSource EXCEPT !.kind = "gitrepository"],
     [FluxSource EXCEPT !.kind = " GitRepository "], [FluxSource EXCEPT !.name = <<>>]}

\* Minutes after which an object that failed validation is reconciled again.
ValidationRequeueMinutes == 5
RequeueValidation == [kind |-> "validation", minutes |-> ValidationRequeueMinutes]

\* A validation failure handed to the error policy like any other error.
ValidationFailureEscalates(states, key) ==
    HandleReconciliationError(states, key, FALSE)

\* reconcile() on a validation failure: it returns Ok with a fixed requeue,
\* so the error policy is not called and backoff_states stays as it is.
ValidationFailure(states, key) == [states |-> states, action |-> RequeueValidation]

\* The spec of s is edited.
SpecEdit(s) ==
    /\ running[s] = "none"
    /\ \E ref \in EditedSources :
          /\ ref # sourceRef[s]
          /\ sourceRef' = [sourceRef EXCEPT ![s] = ref]
    /\ UNCHANGED cachePathOf
    /\ UNCHANGED <<reconcileVars, loopVars, policyVars, componentVars, argoVars>>

\* The reconciliation of s fails validation: the phase becomes Failed and
\* the Action is the fixed requeue. The status followed is the one of Self.
ReconcileInvalid(s) ==
    /\ running[s] = "loop"
    /\ ~ValidateSecretManagerConfig(sourceRef[s])
    /\ running' = [running EXCEPT ![s] = "none"]
    /\ outcome' = [outcome EXCEPT ![s] = "invalid"]
    /\ LET v == ValidationFailure(backoff_states, KeyOf(s))
       IN  /\ backoff_states' = v.states
           /\ action' = [action EXCEPT ![s] = v.action]
    /\ status' = IF s = Self
                 THEN UpdateStatusPhase(status, status, "Failed", "Validation failed")
                 ELSE status
    /\ UNCHANGED <<startup, loopStarted, queue, overlaps, timer, poisoned>>
    /\ UNCHANGED <<gitRepo, disk, lru, provider, triggerUpdate, kustomize, config, pc,
                   repoSnap, downloaded, fetchRes, fetchErr, artifactResult, svc,
                   secretsSynced, synced, calls, provHeld, result>>
    /\ UNCHANGED <<cacheVars, componentVars, argoVars>>

\* The startup pass found nothing to reconcile.
InitValidation == InitLoop /\ startup = {}

\* The control loop where an object can fail validation: an object whose
\* spec is valid goes on to succeed or to fail for another reason.
NextValidation ==
    \/ EnterWatchLoop
    \/ \E s \in SMCs : Trigger(s)
    \/ \E s \in SMCs : LoopReconcile(s)
    \/ \E s \in SMCs : SpecEdit(s)
    \/ \E s \in SMCs : ReconcileInvalid(s)
    \/ \E s \in SMCs : (ValidateSecretManagerConfig(sourceRef[s]) /\ ReconcileOk(s))
    \/ \E s \in SMCs : (ValidateSecretManagerConfig(sourceRef[s]) /\ ReconcileError(s))

SpecValidation == InitValidation /\ [][NextValidation]_vars

\* -------------------------------------------------------- cache directories
\* The fetch made for SMC s computes the cache directory of the source its
\* sourceRef names, at one of the revisions of that source.
ResolveCachePath(s) ==
    /\ \E r \in 1..SyncRevs :
          cachePathOf' = [cachePathOf EXCEPT ![s] = ResolvedCachePath(sourceRef[s], r)]
    /\ UNCHANGED <<reconcileVars, loopVars, policyVars, argoVars, componentVars, sourceRef>>

\* Every SMC names one of the sources.
InitCache ==
    /\ InitReconcile
    /\ InitLoopAtRest
    /\ InitPolicy
    /\ InitArgoDisk
    /\ InitComponentsAtRest
    /\ sourceRef \in [SMCs -> Sources]
    /\ cachePathOf = [s \in SMCs |-> NoPath]

NextCache == \E s \in SMCs : ResolveCachePath(s)

SpecCache == InitCache /\ [][NextCache]_vars

\* ------------------------------------------------- failures within the sync
\* SopsDecryptionFailureReason.
SopsReasons == {"KeyNotFound", "WrongKey", "InvalidKeyFormat", "UnsupportedFormat",
                "CorruptedFile", "NetworkTimeout", "ProviderUnavailable",
                "PermissionDenied", "Unknown"}

\* SopsDecryptionFailureReason::is_transient.
IsTransient(reason) ==
    reason \in {"NetworkTimeout", "ProviderUnavailable", "PermissionDenied", "Unknown"}

\* Texts an error carries, as sequences of words.
Messages == {<<"timeout">>, <<"transient", "fault">>}

\* SopsDecryptionError::new(reason, message): the flag follows the reason.
SopsDecryptionError(reason, message) ==
    [kind |-> "sops", reason |-> reason, message |-> message]

\* What process_application_files can fail with: a SOPS decryption error, a
\* provider failure or a parse failure.
ServiceErrors ==
    {SopsDecryptionError(r, m) : r \in SopsReasons, m \in Messages}
      \cup {[kind |-> k, reason |-> None, message |-> m] :
               k \in {"provider", "parse"}, m \in Messages}

ServiceOk == [kind |-> "ok", reason |-> None, message |-> <<>>]

IsFailure(e) == e.kind \in {"sops", "provider", "parse"}

\* The transient flag of the error: is_transient of a SOPS error, false for
\* every other failure.
TransientFlag(e) == e.kind = "sops" /\ IsTransient(e.reason)

\* e.to_string(): the Display of SopsDecryptionError is
\* "SOPS decryption failed: {reason:?} - {message}"; any other error shows
\* its message.
ErrorToString(e) ==
    IF e.kind = "sops"
    THEN <<"SOPS decryption failed:", e.reason, "-">> \o e.message
    ELSE e.message

\* str::contains over the words of a text.
Contains(text, word) == \E i \in DOMAIN text : text[i] = word

\* sync_secrets: is_transient = error_msg.contains("transient").
IsTransientMessage(error_msg) == Contains(error_msg, "transient")

RECURSIVE Join(_)
Join(text) == IF text = <<>> THEN ""
              ELSE IF Len(text) = 1 THEN Head(text)
              ELSE Head(text) \o " " \o Join(Tail(text))

\* reconcile() hands the object to sync_secrets, which finds the application
\* file sets of the environment, or fails to.
SyncStart ==
    /\ syncPc \in {"idle", "done"}
    /\ config' = status
    /\ secretsSynced' = 0
    /\ result' = None
    /\ fileError' = [i \in FileSetIds |-> NoError]
    /\ fileWrites' = [i \in FileSetIds |-> 0]
    /\ \/ /\ fileSets' \in FileSetIds
          /\ fileIdx' = 1
          /\ syncPc' = "loop"
          /\ syncResult' = None
          /\ UNCHANGED status
       \/ /\ status' = UpdateStatusPhase(status, config', "Failed",
                                         "Failed to find application files")
          /\ fileSets' = 0
          /\ fileIdx' = 0
          /\ syncPc' = "returned"
          /\ syncResult' = "Error"
    /\ UNCHANGED <<gitRepo, disk, lru, provider, triggerUpdate, kustomize, pc, repoSnap,
                   downloaded, fetchRes, fetchErr, artifactResult, svc, synced, calls,
                   provHeld>>
    /\ UNCHANGED <<loopVars, policyVars, cacheVars, argoVars, statusVars, manualVars, keyVars, watchVars, sopsVars, streamVars, peerVars>>

\* One turn of the loop over the file sets: process_application_files
\* returns a count, or an error whose text decides between the return of
\* TransientError and the next file set.
ProcessApplicationFiles ==
    /\ syncPc = "loop"
    /\ fileIdx <= fileSets
    /\ \/ \E count \in 0..1 :
            /\ fileError' = [fileError EXCEPT ![fileIdx] = ServiceOk]
            /\ fileWrites' = [fileWrites EXCEPT ![fileIdx] = count]
            /\ secretsSynced' = secretsSynced + count
            /\ fileIdx' = fileIdx + 1
            /\ UNCHANGED <<status, syncPc, syncResult>>
       \/ \E e \in ServiceErrors :
            LET error_msg == ErrorToString(e)
            IN  /\ fileError' = [fileError EXCEPT ![fileIdx] = e]
                /\ IF IsTransientMessage(error_msg)
                   THEN /\ status' = UpdateStatusPhase(status, config, "Retrying",
                                        "Transient error: " \o Join(error_msg)
                                          \o ". Retrying...")
                        /\ syncResult' = "TransientError"
                        /\ syncPc' = "returned"
                        /\ UNCHANGED fileIdx
                   ELSE /\ status' = UpdateStatusPhase(status, config, "PartialFailure",
                                        "Failed to process service "
                                          \o ToString(fileIdx) \o ": " \o Join(error_msg))
                        /\ fileIdx' = fileIdx + 1
                        /\ UNCHANGED <<syncResult, syncPc>>
                /\ UNCHANGED <<fileWrites, secretsSynced>>
    /\ UNCHANGED <<gitRepo, disk, lru, provider, triggerUpdate, kustomize, config, pc,
                   repoSnap, downloaded, fetchRes, fetchErr, artifactResult, svc, synced,
                   calls, provHeld, result, fileSets>>
    /\ UNCHANGED <<loopVars, policyVars, cacheVars, argoVars, statusVars, manualVars, keyVars, watchVars, sopsVars, streamVars, peerVars>>

\* The loop is over: Success(secrets_synced).
SyncSuccess ==
    /\ syncPc = "loop"
    /\ fileIdx > fileSets
    /\ syncResult' = "Success"
    /\ syncPc' = "returned"
    /\ UNCHANGED <<reconcileVars, fileSets, fileIdx, fileError, fileWrites>>
    /\ UNCHANGED <<loopVars, policyVars, cacheVars, argoVars, statusVars, manualVars, keyVars, watchVars, sopsVars, streamVars, peerVars>>

\* reconcile() takes the SyncResult: after Success it patches Ready with the
\* count, otherwise it returns the requeue of the failure.
SyncReturn ==
    /\ syncPc = "returned"
    /\ IF syncResult = "Success"
       THEN /\ status' = UpdateStatus(status, config, secretsSynced, synced)
            /\ result' = "ok"
       ELSE /\ result' = IF syncResult = "TransientError" THEN "transient" ELSE "error"
            /\ UNCHANGED status
    /\ syncPc' = "done"
    /\ UNCHANGED <<gitRepo, disk, lru, provider, triggerUpdate, kustomize, config, pc,
                   repoSnap, downloaded, fetchRes, fetchErr, artifactResult, svc,
                   secretsSynced, synced, calls, provHeld>>
    /\ UNCHANGED <<fileSets, fileIdx, fileError, fileWrites, syncResult>>
    /\ UNCHANGED <<loopVars, policyVars, cacheVars, argoVars, statusVars, manualVars, keyVars, watchVars, sopsVars, streamVars, peerVars>>

NextSync ==
    \/ SyncStart
    \/ ProcessApplicationFiles
    \/ SyncSuccess
    \/ SyncReturn

SpecSync == Init /\ [][NextSync]_vars

\* ---------------------------------------------------------- status reporter
\* The phase patches the reconciliation makes while it runs, with their
\* messages.
PhasePatches == {[phase |-> "Cloning", message |-> "Fetching GitRepository artifact"],
                 [phase |-> "Pending",
                  message |-> "GitRepository not found, waiting for creation"],
                 [phase |-> "Failed", message |-> "Failed to get artifact path"]}

SuspendedMessage == "Reconciliation is suspended"

PhaseCall(phase, message) ==
    [op |-> "phase", phase |-> phase, description |-> message, count |-> Absent]

CountCall(secrets_synced) ==
    [op |-> "count", phase |-> "Ready",
     description |-> SyncedDescription(secrets_synced), count |-> secrets_synced]

\* spec.suspend is set or cleared.
SetSuspend ==
    /\ suspend' = ~suspend
    /\ runs' = 0
    /\ UNCHANGED <<reconcileVars, now, patchPc, lastCall>>
    /\ UNCHANGED <<loopVars, policyVars, cacheVars, argoVars, syncVars, manualVars, keyVars, watchVars, sopsVars, streamVars, peerVars>>

\* A reconciliation of the object while spec.suspend is set: the status is
\* patched to Suspended and the reconciliation returns.
ReconcileSuspended ==
    /\ patchPc = "idle"
    /\ suspend
    /\ now < MaxClock
    /\ config' = status
    /\ status' = UpdateStatusPhase(status, config', "Suspended", SuspendedMessage)
    /\ lastCall' = PhaseCall("Suspended", SuspendedMessage)
    /\ now' = now + 1
    /\ runs' = runs + 1
    /\ UNCHANGED <<gitRepo, disk, lru, provider, triggerUpdate, kustomize, pc, repoSnap,
                   downloaded, fetchRes, fetchErr, artifactResult, svc, secretsSynced,
                   synced, calls, provHeld, result>>
    /\ UNCHANGED <<patchPc, suspend>>
    /\ UNCHANGED <<loopVars, policyVars, cacheVars, argoVars, syncVars, manualVars, keyVars, watchVars, sopsVars, streamVars, peerVars>>

\* A reconciliation starts: the controller hands it the object as it is
\* stored.
BeginReconcile ==
    /\ patchPc = "idle"
    /\ ~suspend
    /\ now < MaxClock
    /\ config' = status
    /\ patchPc' = "running"
    /\ lastCall' = NoPatchCall
    /\ UNCHANGED <<gitRepo, disk, lru, provider, triggerUpdate, kustomize, status, pc,
                   repoSnap, downloaded, fetchRes, fetchErr, artifactResult, svc,
                   secretsSynced, synced, calls, provHeld, result>>
    /\ UNCHANGED <<now, suspend, runs>>
    /\ UNCHANGED <<loopVars, policyVars, cacheVars, argoVars, syncVars, manualVars, keyVars, watchVars, sopsVars, streamVars, peerVars>>

\* The running reconciliation calls update_status_phase.
PatchPhase ==
    /\ patchPc = "running"
    /\ now < MaxClock
    /\ \E c \in PhasePatches :
          /\ status' = UpdateStatusPhase(status, config, c.phase, c.message)
          /\ lastCall' = PhaseCall(c.phase, c.message)
    /\ now' = now + 1
    /\ UNCHANGED <<gitRepo, disk, lru, provider, triggerUpdate, kustomize, config, pc,
                   repoSnap, downloaded, fetchRes, fetchErr, artifactResult, svc,
                   secretsSynced, synced, calls, provHeld, result>>
    /\ UNCHANGED <<patchPc, suspend, runs>>
    /\ UNCHANGED <<loopVars, policyVars, cacheVars, argoVars, syncVars, manualVars, keyVars, watchVars, sopsVars, streamVars, peerVars>>

\* The reconciliation succeeded: it calls update_status with the count and
\* returns.
PatchSyncCounts ==
    /\ patchPc = "running"
    /\ now < MaxClock
    /\ \E n \in 0..MaxCount :
          /\ status' = UpdateStatus(status, config, n, [s \in Services |-> 0])
          /\ lastCall' = CountCall(n)
    /\ now' = now + 1
    /\ patchPc' = "idle"
    /\ UNCHANGED <<gitRepo, disk, lru, provider, triggerUpdate, kustomize, config, pc,
                   repoSnap, downloaded, fetchRes, fetchErr, artifactResult, svc,
                   secretsSynced, synced, calls, provHeld, result>>
    /\ UNCHANGED <<suspend, runs>>
    /\ UNCHANGED <<loopVars, policyVars, cacheVars, argoVars, syncVars, manualVars, keyVars, watchVars, sopsVars, streamVars, peerVars>>

\* The reconciliation returns after a failure, without any further patch.
ReturnFailed ==
    /\ patchPc = "running"
    /\ lastCall.op = "phase"
    /\ patchPc' = "idle"
    /\ UNCHANGED <<reconcileVars, now, suspend, runs, lastCall>>
    /\ UNCHANGED <<loopVars, policyVars, cacheVars, argoVars, syncVars, manualVars, keyVars, watchVars, sopsVars, streamVars, peerVars>>

NextStatus ==
    \/ SetSuspend
    \/ ReconcileSuspended
    \/ BeginReconcile
    \/ PatchPhase
    \/ PatchSyncCounts
    \/ ReturnFailed

SpecStatus == Init /\ [][NextStatus]_vars

\* ------------------------------------------------------------ manual trigger
\* clear_manual_trigger_annotation as it would be if it never patched.
ClearManualTriggerAnnotationKeeps(stored, held) == stored

\* clear_manual_trigger_annotation: a merge patch that sets the annotation to
\* null, made only when the object the reconciliation holds carries it.
ClearManualTriggerAnnotation(stored, held) == IF held # 0 THEN 0 ELSE stored

\* msmctl reconcile for object s: a merge patch that sets the annotation to
\* the current time in seconds. The watch stream emits an update when the
\* object changed.
CliReconcile(s) ==
    /\ \E timestamp \in 1..MaxStamp :
          /\ timestamp >= annotation[s]
          /\ timestamp # annotation[s]
          /\ annotation' = [annotation EXCEPT ![s] = timestamp]
    /\ pending' = [pending EXCEPT ![s] = TRUE]
    /\ manualRuns' = [manualRuns EXCEPT ![s] = 0]
    /\ manualOk' = [manualOk EXCEPT ![s] = FALSE]
    /\ UNCHANGED <<handed, manualPc>>
    /\ UNCHANGED <<reconcileVars, loopVars, policyVars, cacheVars, argoVars, syncVars,
                   statusVars, keyVars, watchVars, sopsVars, streamVars, peerVars>>

\* The periodic timer or the requeue of the last reconciliation of s is due.
RequeueDue(s) ==
    /\ ~pending[s]
    /\ pending' = [pending EXCEPT ![s] = TRUE]
    /\ UNCHANGED <<annotation, handed, manualPc, manualRuns, manualOk>>
    /\ UNCHANGED <<reconcileVars, loopVars, policyVars, cacheVars, argoVars, syncVars,
                   statusVars, keyVars, watchVars, sopsVars, streamVars, peerVars>>

\* The controller serves the trigger of s: it hands the stored object to a
\* reconciliation, which is a manual one when the object carries the
\* annotation.
ManualBegin(s) ==
    /\ manualPc[s] = "idle"
    /\ pending[s]
    /\ annotation[s] # 0 => manualRuns[s] < MaxManualRuns
    /\ pending' = [pending EXCEPT ![s] = FALSE]
    /\ handed' = [handed EXCEPT ![s] = annotation[s]]
    /\ manualPc' = [manualPc EXCEPT ![s] = "running"]
    /\ manualRuns' = [manualRuns EXCEPT ![s] = IF annotation[s] # 0 THEN @ + 1 ELSE @]
    /\ UNCHANGED <<annotation, manualOk>>
    /\ UNCHANGED <<reconcileVars, loopVars, policyVars, cacheVars, argoVars, syncVars,
                   statusVars, keyVars, watchVars, sopsVars, streamVars, peerVars>>

\* The reconciliation of s succeeds: the annotation is cleared, and the
\* clearing patch makes the watch stream emit an update.
ManualSucceeds(s) ==
    /\ manualPc[s] = "running"
    /\ annotation' = [annotation EXCEPT
                         ![s] = ClearManualTriggerAnnotation(annotation[s], handed[s])]
    /\ pending' = [pending EXCEPT ![s] = @ \/ annotation'[s] # annotation[s]]
    /\ manualOk' = [manualOk EXCEPT ![s] = @ \/ handed[s] # 0]
    /\ manualPc' = [manualPc EXCEPT ![s] = "idle"]
    /\ handed' = [handed EXCEPT ![s] = 0]
    /\ UNCHANGED manualRuns
    /\ UNCHANGED <<reconcileVars, loopVars, policyVars, cacheVars, argoVars, syncVars,
                   statusVars, keyVars, watchVars, sopsVars, streamVars, peerVars>>

\* The reconciliation of s fails: nothing is cleared and the error policy asks
\* for a requeue.
ManualFails(s) ==
    /\ manualPc[s] = "running"
    /\ manualPc' = [manualPc EXCEPT ![s] = "idle"]
    /\ handed' = [handed EXCEPT ![s] = 0]
    /\ UNCHANGED <<annotation, pending, manualRuns, manualOk>>
    /\ UNCHANGED <<reconcileVars, loopVars, policyVars, cacheVars, argoVars, syncVars,
                   statusVars, keyVars, watchVars, sopsVars, streamVars, peerVars>>

NextManual ==
    \/ \E s \in SMCs : CliReconcile(s)
    \/ \E s \in SMCs : RequeueDue(s)
    \/ \E s \in SMCs : ManualBegin(s)
    \/ \E s \in SMCs : ManualSucceeds(s)
    \/ \E s \in SMCs : ManualFails(s)

SpecManual == Init /\ [][NextManual]_vars

\* --------------------------------------------------------------- key watcher
\* The data maps the secrets are written with.
DataMaps == {SecretData(0, 0, 0), SecretData(1, 0, 0), SecretData(0, MaxKey, 0),
             SecretData(1, 0, MaxKey), SecretData(NotUtf8, 0, 0)}

\* The data field the key is taken from: private-key, else key, else gpg-key
\* (0: the secret has none of them).
KeyField(secret) ==
    IF ~secret.exists THEN 0
    ELSE IF secret.private_key # 0 THEN secret.private_key
    ELSE IF secret.key # 0 THEN secret.key
    ELSE secret.gpg_key

\* The first secret of the namespace, in the order of the names, that has a
\* key field: its index, or 0 when there is none.
FirstKeySecret(namespace) ==
    LET found == {i \in DOMAIN SecretNames :
                     KeyField(secrets[<<namespace, SecretNames[i]>>]) # 0}
    IN  IF found = {} THEN 0 ELSE CHOOSE i \in found : \A j \in found : i <= j

\* load_sops_private_key: the key of the controller namespace, as
\* [ok, key]: Ok(Some(key)), Ok(None) or the Err of a key that is not UTF-8.
LoadSopsPrivateKey ==
    LET i == FirstKeySecret(ControllerNamespace)
        k == IF i = 0 THEN 0 ELSE KeyField(secrets[<<ControllerNamespace, SecretNames[i]>>])
    IN  [ok |-> k # NotUtf8, key |-> IF k = NotUtf8 THEN 0 ELSE k]

\* reload_sops_private_key: the key in memory after the call, given the one
\* before; an error leaves it as it was.
ReloadSopsPrivateKey(current) ==
    IF LoadSopsPrivateKey.ok THEN LoadSopsPrivateKey.key ELSE current

\* reload_sops_private_key_from_namespace: the first key found in the
\* namespace, else the reload from the controller namespace.
ReloadSopsPrivateKeyFromNamespace(current, namespace) ==
    LET i == FirstKeySecret(namespace)
        k == IF i = 0 THEN 0 ELSE KeyField(secrets[<<namespace, SecretNames[i]>>])
    IN  IF i = 0 THEN ReloadSopsPrivateKey(current)
        ELSE IF k = NotUtf8 THEN current
        ELSE k

\* The Delete arm of start_sops_key_watch without its Err branch: the key is
\* whatever reload_sops_private_key leaves.
HandleDeleteKeepsKey(current) == ReloadSopsPrivateKey(current)

\* The Delete arm of start_sops_key_watch: reload from the controller
\* namespace, and clear the key when the reload returns an error.
HandleDelete(current) ==
    IF LoadSopsPrivateKey.ok THEN ReloadSopsPrivateKey(current) ELSE 0

\* A key secret is created or updated; the watch stream will deliver it.
SecretApply ==
    /\ Len(watchEvents) < MaxEvents
    /\ \E ref \in SecretRefs, data \in DataMaps :
          /\ secrets[ref] # data
          /\ Cardinality({r \in SecretRefs : secrets[r].exists} \cup {ref}) <= MaxSecrets
          /\ secrets' = [secrets EXCEPT ![ref] = data]
          /\ watchEvents' = Append(watchEvents,
                               [type |-> "Apply", namespace |-> ref[1], name |-> ref[2],
                                secret |-> data])
    /\ UNCHANGED <<sops_private_key, lastValid, lastEvent>>
    /\ UNCHANGED <<reconcileVars, loopVars, policyVars, cacheVars, argoVars, syncVars,
                   statusVars, manualVars, watchVars, sopsVars, streamVars, peerVars>>

\* A key secret is deleted.
SecretDelete ==
    /\ Len(watchEvents) < MaxEvents
    /\ \E ref \in SecretRefs :
          /\ secrets[ref].exists
          /\ secrets' = [secrets EXCEPT ![ref] = NoSecret]
          /\ watchEvents' = Append(watchEvents,
                               [type |-> "Delete", namespace |-> ref[1], name |-> ref[2],
                                secret |-> secrets[ref]])
    /\ UNCHANGED <<sops_private_key, lastValid, lastEvent>>
    /\ UNCHANGED <<reconcileVars, loopVars, policyVars, cacheVars, argoVars, syncVars,
                   statusVars, manualVars, watchVars, sopsVars, streamVars, peerVars>>

\* start_sops_key_watch, one turn of the loop over the stream. An Apply
\* reloads from the namespace of the secret; a Delete reloads from the
\* controller namespace and clears the key when that fails.
ProcessWatchEvent ==
    /\ watchEvents # <<>>
    /\ LET event == Head(watchEvents)
           carried == KeyField(event.secret)
       IN  /\ sops_private_key' =
                 IF event.type = "Apply"
                 THEN ReloadSopsPrivateKeyFromNamespace(sops_private_key, event.namespace)
                 ELSE HandleDelete(sops_private_key)
           /\ lastValid' = IF event.type = "Apply" /\ carried > 0 THEN carried
                           ELSE lastValid
           /\ lastEvent' = [type |-> event.type,
                             reloaded |-> IF event.type = "Delete"
                                          THEN LoadSopsPrivateKey.ok ELSE TRUE,
                             before |-> sops_private_key]
    /\ watchEvents' = Tail(watchEvents)
    /\ UNCHANGED secrets
    /\ UNCHANGED <<reconcileVars, loopVars, policyVars, cacheVars, argoVars, syncVars,
                   statusVars, manualVars, watchVars, sopsVars, streamVars, peerVars>>

NextKey ==
    \/ SecretApply
    \/ SecretDelete
    \/ ProcessWatchEvent

SpecKey == Init /\ [][NextKey]_vars

\* ------------------------------------------------ SOPS error classification
\* What sops writes to stderr when it fails.
SopsOutputs ==
    {<<"no", "decryption", "key", "found">>, <<"key", "not", "found">>,
     <<"decryption", "failed", ":", "wrong", "key">>, <<"GPG", "decryption", "failed">>,
     <<"decryption", "failed", ":", "Timeout">>, <<"invalid", "key", "format">>,
     <<"malformed", "key">>, <<"unsupported", "format">>, <<"unknown", "file", "type">>,
     <<"corrupt">>, <<"invalid", "file">>, <<"network", "timeout">>, <<"timed", "out">>,
     <<"provider", "unavailable">>, <<"connection", "refused">>,
     <<"permission", "denied">>, <<"unauthorized">>, <<"forbidden">>,
     <<"some", "random", "error">>}

\* str::to_lowercase, word by word.
ToLowercase(text) ==
    [i \in DOMAIN text |->
        CASE text[i] = "GPG" -> "gpg"
          [] text[i] = "Timeout" -> "timeout"
          [] OTHER -> text[i]]

\* str::contains for a phrase of several words.
ContainsPhrase(text, phrase) ==
    \E i \in 1..(Len(text) - Len(phrase) + 1) :
        SubSeq(text, i, i + Len(phrase) - 1) = phrase

\* The message fallback of classify_sops_error.
ClassifyByMessage(msg, code) ==
    LET error_lower == ToLowercase(msg)
        Has(phrase) == ContainsPhrase(error_lower, phrase)
    IN  IF Has(<<"no", "decryption", "key">>) \/ Has(<<"key", "not", "found">>)
        THEN "KeyNotFound"
        ELSE IF (Has(<<"wrong", "key">>) \/ Has(<<"decryption", "failed">>))
                /\ (Has(<<"gpg">>) \/ Has(<<"key">>))
        THEN "WrongKey"
        ELSE IF Has(<<"invalid", "key">>) \/ Has(<<"malformed", "key">>)
        THEN "InvalidKeyFormat"
        ELSE IF Has(<<"unsupported", "format">>) \/ Has(<<"unknown", "file", "type">>)
        THEN "UnsupportedFormat"
        ELSE IF Has(<<"corrupt">>) \/ Has(<<"invalid", "file">>)
        THEN "CorruptedFile"
        ELSE IF Has(<<"timeout">>) \/ Has(<<"timed", "out">>)
        THEN "NetworkTimeout"
        ELSE IF Has(<<"unavailable">>) \/ Has(<<"connection", "refused">>)
        THEN "ProviderUnavailable"
        ELSE IF Has(<<"permission", "denied">>) \/ Has(<<"unauthorized">>)
                \/ Has(<<"forbidden">>)
        THEN "PermissionDenied"
        ELSE "Unknown"

\* A classification that never looks at the exit code.
ClassifyIgnoresExitCode(msg, code) == ClassifyByMessage(msg, code)

\* classify_sops_error: the exit code first, the message for every other or
\* missing code.
ClassifySopsError(msg, code) ==
    CASE code = 3 -> "KeyNotFound"
      [] code = 4 -> "WrongKey"
      [] code = 5 -> "UnsupportedFormat"
      [] code = 6 -> "InvalidKeyFormat"
      [] code = 2 -> "CorruptedFile"
      [] OTHER -> ClassifyByMessage(msg, code)

\* The sops process ends with a non-zero exit code, or without one, and the
\* failure is classified.
SopsFails ==
    /\ \E code \in (1..MaxExitCode) \cup {Absent}, msg \in SopsOutputs :
          /\ exit_code' = code
          /\ stderr' = msg
          /\ sopsError' = SopsDecryptionError(ClassifySopsError(msg, code), msg)
    /\ UNCHANGED <<reconcileVars, loopVars, policyVars, cacheVars, argoVars, syncVars,
                   statusVars, manualVars, keyVars, watchVars, streamVars, peerVars>>

NextSops == SopsFails

SpecSops == Init /\ [][NextSops]_vars

\* ------------------------------------------------- key watcher, step by step
\* The task of start_sops_key_watch with its suspension points: the RBAC
\* verification loop, then per event of the stream the API reads of the
\* reload, the acquisition of the key mutex and the assignment.

\* The controller has started with the key load_sops_private_key found.
InitWatch ==
    /\ InitReconcile
    /\ InitLoopAtRest
    /\ InitPolicy
    /\ InitArgoDisk
    /\ InitSyncAtRest
    /\ InitStatusAtRest
    /\ InitManualAtRest
    /\ InitWatchAtRest
    /\ InitSopsAtRest
    /\ InitStreamAtRest
    /\ InitPeerAtRest
    /\ sourceRef = [s \in SMCs |-> FluxSource]
    /\ cachePathOf = [s \in SMCs |-> NoPath]
    /\ \E data \in {NoSecret, SecretData(1, 0, 0)} :
          secrets = [ref \in SecretRefs |->
                        IF ref = <<ControllerNamespace, SecretNames[1]>> THEN data
                        ELSE NoSecret]
    /\ watchEvents = <<>>
    /\ sops_private_key = LoadSopsPrivateKey.key
    /\ lastValid = 0
    /\ lastEvent = NoEvent

\* A verification loop that gives up at the first failure.
RbacRetryNever(count) == "aborted"

\* The Err arm of the verification loop, given the retry_count it has just
\* raised: give up at MAX_RETRIES, else sleep and verify again.
RbacRetry(count) == IF count >= MAX_RETRIES THEN "aborted" ELSE "sleep"

\* A reload that takes the key mutex before it reads from the API.
ReloadOrderLockFirst(at) ==
    CASE at = "stream" -> "lock"
      [] at = "lock" -> "fetch"
      [] at = "fetch" -> "assign"
      [] OTHER -> "stream"

\* Order of the steps of a reload: the API reads, then the lock of the
\* mutex, then the assignment, after which the guard is dropped.
ReloadOrder(at) ==
    CASE at = "stream" -> "fetch"
      [] at = "fetch" -> "lock"
      [] at = "lock" -> "assign"
      [] OTHER -> "stream"

\* reload_sops_private_key_from_namespace assigns the key: it found a key it
\* could decode in the namespace, or none there and the load from the
\* controller namespace returned Ok.
ApplyAssigns(namespace) ==
    LET i == FirstKeySecret(namespace)
    IN  IF i = 0 THEN LoadSopsPrivateKey.ok
        ELSE KeyField(secrets[<<namespace, SecretNames[i]>>]) # NotUtf8

\* The permission to list secrets is granted or withdrawn while the task
\* verifies it.
RbacChange ==
    /\ watchPc \in {"verify", "sleep"}
    /\ rbacOk' = ~rbacOk
    /\ UNCHANGED <<watchPc, retry_count, slept, fetched, keyLock>>
    /\ UNCHANGED <<reconcileVars, loopVars, policyVars, cacheVars, argoVars, syncVars,
                   statusVars, manualVars, keyVars, sopsVars, streamVars, peerVars>>

\* verify_rbac_for_sops_watch returns Ok: the loop is left and the watch is
\* started. The locals of the loop are not read again and are forgotten.
VerifyOk ==
    /\ watchPc = "verify"
    /\ rbacOk
    /\ watchPc' = "stream"
    /\ retry_count' = 0
    /\ slept' = 0
    /\ UNCHANGED <<rbacOk, fetched, keyLock>>
    /\ UNCHANGED <<reconcileVars, loopVars, policyVars, cacheVars, argoVars, syncVars,
                   statusVars, manualVars, keyVars, sopsVars, streamVars, peerVars>>

\* verify_rbac_for_sops_watch returns Err.
VerifyFails ==
    /\ watchPc = "verify"
    /\ ~rbacOk
    /\ retry_count <= MAX_RETRIES
    /\ retry_count' = retry_count + 1
    /\ watchPc' = RbacRetry(retry_count')
    /\ UNCHANGED <<slept, rbacOk, fetched, keyLock>>
    /\ UNCHANGED <<reconcileVars, loopVars, policyVars, cacheVars, argoVars, syncVars,
                   statusVars, manualVars, keyVars, sopsVars, streamVars, peerVars>>

\* The sleep between two verifications is over.
RetrySleep ==
    /\ watchPc = "sleep"
    /\ slept' = slept + RETRY_DELAY_SECS
    /\ watchPc' = "verify"
    /\ UNCHANGED <<retry_count, rbacOk, fetched, keyLock>>
    /\ UNCHANGED <<reconcileVars, loopVars, policyVars, cacheVars, argoVars, syncVars,
                   statusVars, manualVars, keyVars, sopsVars, streamVars, peerVars>>

\* stream.next() yields an event of a key secret and the reload starts; the
\* event stays at the head of watchEvents until the task is done with it.
WatcherTake ==
    /\ watchPc = "stream"
    /\ watchEvents # <<>>
    /\ watchPc' = ReloadOrder("stream")
    /\ UNCHANGED <<retry_count, slept, rbacOk, fetched, keyLock>>
    /\ UNCHANGED <<reconcileVars, loopVars, policyVars, cacheVars, argoVars, syncVars,
                   statusVars, manualVars, keyVars, sopsVars, streamVars, peerVars>>

\* The mutex is free and the task takes it.
WatcherLock ==
    /\ watchPc = "lock"
    /\ keyLock = None
    /\ keyLock' = "watcher"
    /\ watchPc' = ReloadOrder("lock")
    /\ UNCHANGED <<retry_count, slept, rbacOk, fetched>>
    /\ UNCHANGED <<reconcileVars, loopVars, policyVars, cacheVars, argoVars, syncVars,
                   statusVars, manualVars, keyVars, sopsVars, streamVars, peerVars>>

\* The API reads of the reload return. An Apply that ends in an error
\* assigns nothing and the task is done with the event; everything else goes
\* on to assign the key the reads gave.
WatcherFetch ==
    /\ watchPc = "fetch"
    /\ LET event == Head(watchEvents)
           assign == event.type = "Delete" \/ ApplyAssigns(event.namespace)
           key == IF event.type = "Apply"
                  THEN ReloadSopsPrivateKeyFromNamespace(sops_private_key, event.namespace)
                  ELSE HandleDelete(sops_private_key)
       IN  /\ fetched' = IF assign THEN [assign |-> assign, key |-> key] ELSE NoFetch
           /\ watchPc' = IF assign THEN ReloadOrder("fetch") ELSE "stream"
           /\ watchEvents' = IF assign THEN watchEvents ELSE Tail(watchEvents)
           /\ keyLock' = IF ~assign /\ keyLock = "watcher" THEN None ELSE keyLock
    /\ UNCHANGED <<secrets, sops_private_key, lastValid, lastEvent>>
    /\ UNCHANGED <<retry_count, slept, rbacOk>>
    /\ UNCHANGED <<reconcileVars, loopVars, policyVars, cacheVars, argoVars, syncVars,
                   statusVars, manualVars, sopsVars, streamVars, peerVars>>

\* *key_guard = new_key, and the guard is dropped when the function returns;
\* the task is done with the event.
WatcherAssign ==
    /\ watchPc = "assign"
    /\ keyLock = "watcher"
    /\ sops_private_key' = fetched.key
    /\ keyLock' = None
    /\ watchPc' = "stream"
    /\ fetched' = NoFetch
    /\ watchEvents' = Tail(watchEvents)
    /\ UNCHANGED <<secrets, lastValid, lastEvent>>
    /\ UNCHANGED <<retry_count, slept, rbacOk>>
    /\ UNCHANGED <<reconcileVars, loopVars, policyVars, cacheVars, argoVars, syncVars,
                   statusVars, manualVars, sopsVars, streamVars, peerVars>>

\* A reconciliation takes the mutex to read the key for a decryption.
ReaderLock ==
    /\ keyLock = None
    /\ keyLock' = "reader"
    /\ UNCHANGED <<watchPc, retry_count, slept, rbacOk, fetched>>
    /\ UNCHANGED <<reconcileVars, loopVars, policyVars, cacheVars, argoVars, syncVars,
                   statusVars, manualVars, keyVars, sopsVars, streamVars, peerVars>>

\* It has copied the key and drops the guard.
ReaderUnlock ==
    /\ keyLock = "reader"
    /\ keyLock' = None
    /\ UNCHANGED <<watchPc, retry_count, slept, rbacOk, fetched>>
    /\ UNCHANGED <<reconcileVars, loopVars, policyVars, cacheVars, argoVars, syncVars,
                   statusVars, manualVars, keyVars, sopsVars, streamVars, peerVars>>

\* Key secrets change once the watch is established; what changes before is
\* delivered as Init events, which the task ignores.
NextWatch ==
    \/ RbacChange
    \/ VerifyOk
    \/ VerifyFails
    \/ RetrySleep
    \/ (watchPc \notin {"verify", "sleep", "aborted"} /\ SecretApply)
    \/ (watchPc \notin {"verify", "sleep", "aborted"} /\ SecretDelete)
    \/ WatcherTake
    \/ WatcherFetch
    \/ WatcherLock
    \/ WatcherAssign
    \/ ReaderLock
    \/ ReaderUnlock

SpecWatch == InitWatch /\ [][NextWatch]_vars

\* The tasks of the runtime are scheduled fairly: a reconciliation that can
\* take or release the mutex does so.
SpecWatchFair == SpecWatch /\ WF_vars(ReaderLock) /\ WF_vars(ReaderUnlock)

\* ------------------------------------------------- watch-stream error policy
\* Error strings of the watch stream, as sequences of words.
WatchErrors ==
    {<<"401", "Unauthorized">>, <<"WatchFailed">>,
     <<"410", "Gone">>, <<"Expired", ":", "too", "old", "resource", "version", ":", "7">>,
     <<"too", "old", "resource", "version", ":", "401">>,
     <<"429", "TooManyRequests">>, <<"storage", "is", "(re)initializing">>,
     <<"ObjectNotFound">>, <<"404", "not", "found">>, <<"404">>,
     <<"500", "InternalError">>}

\* The four tests handle_watch_stream_error makes on the error string.
Is401(error_string) ==
    \/ ContainsPhrase(error_string, <<"401">>)
    \/ ContainsPhrase(error_string, <<"Unauthorized">>)
    \/ ContainsPhrase(error_string, <<"WatchFailed">>)

Is410(error_string) ==
    \/ ContainsPhrase(error_string, <<"410">>)
    \/ ContainsPhrase(error_string, <<"too", "old", "resource", "version">>)
    \/ ContainsPhrase(error_string, <<"Expired">>)
    \/ ContainsPhrase(error_string, <<"Gone">>)

Is429(error_string) ==
    \/ ContainsPhrase(error_string, <<"429">>)
    \/ ContainsPhrase(error_string, <<"storage", "is", "(re)initializing">>)
    \/ ContainsPhrase(error_string, <<"TooManyRequests">>)

IsNotFound(error_string) ==
    \/ ContainsPhrase(error_string, <<"ObjectNotFound">>)
    \/ (ContainsPhrase(error_string, <<"404">>)
        /\ ContainsPhrase(error_string, <<"not", "found">>))

\* The arm of the if-chain the error string takes.
WatchErrorArm(error_string) ==
    IF Is401(error_string) THEN "401"
    ELSE IF Is410(error_string) THEN "410"
    ELSE IF Is429(error_string) THEN "429"
    ELSE IF IsNotFound(error_string) THEN "not_found"
    ELSE "other"

\* The sleep of DEFAULT_WATCH_RESTART_DELAY_SECS, and a sleep of n ms.
RestartDelay == [unit |-> "DEFAULT_WATCH_RESTART_DELAY_SECS", n |-> 1]
Millis(n) == [unit |-> "ms", n |-> n]

\* A 429 arm that doubles the backoff without the cap.
HandleWatchStreamErrorUncapped(error_string, backoff, max_backoff) ==
    LET arm == WatchErrorArm(error_string)
    IN  IF arm = "429"
        THEN [arm |-> arm, delay |-> Millis(backoff), backoff |-> backoff * 2, restart |-> TRUE]
        ELSE [arm |-> arm, delay |-> NoDelay, backoff |-> backoff, restart |-> TRUE]

\* handle_watch_stream_error: the delay it sleeps, the backoff it stores and
\* whether it returns None, which lets the watch restart.
HandleWatchStreamError(error_string, backoff, max_backoff) ==
    LET arm == WatchErrorArm(error_string)
    IN  CASE arm = "401" ->
               [arm |-> arm, delay |-> RestartDelay, backoff |-> backoff, restart |-> TRUE]
          [] arm = "410" ->
               [arm |-> arm, delay |-> NoDelay, backoff |-> backoff, restart |-> TRUE]
          [] arm = "429" ->
               LET current_backoff == backoff
                   new_backoff == IF current_backoff * 2 < max_backoff
                                  THEN current_backoff * 2 ELSE max_backoff
               IN  [arm |-> arm, delay |-> Millis(current_backoff),
                    backoff |-> new_backoff, restart |-> TRUE]
          [] arm = "not_found" ->
               [arm |-> arm, delay |-> NoDelay, backoff |-> backoff, restart |-> FALSE]
          [] OTHER ->
               [arm |-> arm, delay |-> RestartDelay, backoff |-> backoff, restart |-> TRUE]

\* The controller creates the backoff of the watch stream from its
\* configuration: an initial value no larger than the maximum.
WatchStarts ==
    /\ max_backoff_ms = 0
    /\ \E start \in 1..MaxBackoffStartMs :
          \E max \in start..MaxBackoffMs :
              /\ watch_backoff' = start
              /\ max_backoff_ms' = max
    /\ UNCHANGED streamResult
    /\ UNCHANGED <<reconcileVars, loopVars, policyVars, cacheVars, argoVars, syncVars,
                   statusVars, manualVars, keyVars, watchVars, sopsVars, peerVars>>

\* The watch stream yields an error and the controller handles it.
WatchStreamError ==
    /\ max_backoff_ms > 0
    /\ \E error_string \in WatchErrors :
          LET r == HandleWatchStreamError(error_string, watch_backoff, max_backoff_ms)
          IN  /\ watch_backoff' = r.backoff
              /\ streamResult' = [error |-> error_string, arm |-> r.arm,
                                  delay |-> r.delay, restart |-> r.restart]
    /\ UNCHANGED max_backoff_ms
    /\ UNCHANGED <<reconcileVars, loopVars, policyVars, cacheVars, argoVars, syncVars,
                   statusVars, manualVars, keyVars, watchVars, sopsVars, peerVars>>

NextStream ==
    \/ WatchStarts
    \/ WatchStreamError

SpecStream == Init /\ [][NextStream]_vars

TypeOK ==
    /\ pc \in {"idle", "resolve", "fetch", "send", "stream", "extract", "resolved",
               "sync", "services", "status", "done"}
    /\ provider \in [Services -> 0..MaxVal]
    /\ status.sync \in [Services -> 0..MaxCount]
    /\ downloaded \in 0..MaxBody
    /\ syncPc \in {"idle", "loop", "returned", "done"}
    /\ fileSets \in 0..MaxFileSets
    /\ syncResult \in {None, "Success", "TransientError", "Error"}
    /\ now \in 0..MaxClock
    /\ patchPc \in {"idle", "running"}
    /\ Len(status.conditions) <= 1
    /\ annotation \in [SMCs -> 0..MaxStamp]
    /\ manualRuns \in [SMCs -> 0..MaxManualRuns]
    /\ sops_private_key \in 0..MaxKey
    /\ Len(watchEvents) <= MaxEvents
    /\ watchPc \in {"verify", "sleep", "aborted", "stream", "fetch", "lock", "assign"}
    /\ retry_count \in 0..MAX_RETRIES
    /\ keyLock \in {None, "watcher", "reader"}
    /\ exit_code \in (1..MaxExitCode) \cup {Absent}
    /\ watch_backoff \in 0..MaxBackoffMs
    /\ max_backoff_ms \in 0..MaxBackoffMs
    /\ remoteHead \in [Targets -> 1..MaxCommits]
    /\ peerPc \in {"idle", "send", "stream", "extract"}
    /\ peerRev \in 0..TwinRev
    /\ \A d \in RevDirs : disk[d].rev \in 0..TwinRev

\* ------------------------------------------------------------- properties
\* The services the sync of this reconciliation projects a secret for.
Projected == 1..ArtifactTree.tree

\* The reconciliation has returned from a successful sync.
Succeeded == pc = "done" /\ result = "ok"

\* C1: after a successful reconciliation, the persisted updateCount of a
\* tracked secret that the provider held and whose create_or_update_secret
\* call succeeded is the prior count plus one when the projected value
\* differed from the value the provider held, and the prior count otherwise.
C1_UpdateCountPersisted ==
    \A s \in Services :
        (/\ Succeeded
         /\ config.sync[s] >= 1
         /\ calls[s].made /\ calls[s].ok
         /\ calls[s].prior # 0)
        => status.sync[s] = config.sync[s]
                            + (IF calls[s].prior # calls[s].value THEN 1 ELSE 0)

\* C2: a successful reconciliation that starts from a Ready status counting
\* every projected secret, with the provider holding every projected value,
\* leaves secretsSynced and every updateCount as they were and writes nothing.
C2_SecondReconcileNoOp ==
    (/\ Succeeded
     /\ config.phase = "Ready"
     /\ config.secretsSynced = ArtifactTree.tree
     /\ \A s \in Projected :
           calls[s].made /\ calls[s].ok /\ provHeld[s] = GitValue(repoSnap.rev, s))
    => /\ status.secretsSynced = config.secretsSynced
       /\ status.sync = config.sync
       /\ \A s \in Services : ~calls[s].wrote

\* C3: with triggerUpdate on, a successful reconciliation that finds a
\* tracked secret whose provider value differs from the Git value writes it
\* once and persists its updateCount raised by one.
C3_ChangeWrittenAndCounted ==
    \A s \in Services :
        (/\ Succeeded
         /\ triggerUpdate
         /\ config.phase = "Ready"
         /\ config.sync[s] >= 1
         /\ calls[s].made /\ calls[s].ok
         /\ provHeld[s] # 0
         /\ provHeld[s] # calls[s].value)
        => /\ calls[s].wrote
           /\ provider[s] = calls[s].value
           /\ status.sync[s] = config.sync[s] + 1

\* C4: a successful create_or_update_secret call returns changed = false
\* exactly when the provider already held the value, and then writes nothing;
\* otherwise it writes once and returns changed = true. A failed call leaves
\* the provider as it was.
C4_CreateOrUpdateSecret ==
    \A s \in Services :
        calls[s].made
        => /\ calls[s].ok => (~calls[s].changed <=> calls[s].prior = calls[s].value)
           /\ calls[s].changed <=> calls[s].wrote
           /\ calls[s].wrote => (calls[s].ok /\ provider[s] = calls[s].value)
           /\ ~calls[s].wrote => provider[s] = calls[s].prior

\* A successful call that found the value in place and returned false.
C4_Witness ==
    \E s \in Services :
        /\ calls[s].made /\ calls[s].ok /\ ~calls[s].changed
        /\ calls[s].prior = calls[s].value

\* C5: with triggerUpdate off, a secret whose provider value exists and
\* differs from the Git value is not written, and its updateCount stays.
C5_DriftNotWritten ==
    \A s \in Services :
        (/\ pc \in {"sync", "services", "status", "done"}
         /\ artifactResult = "Path"
         /\ ~triggerUpdate
         /\ provHeld[s] # 0
         /\ provHeld[s] # GitValue(repoSnap.rev, s))
        => /\ ~calls[s].made
           /\ provider[s] = provHeld[s]
           /\ synced[s] = config.sync[s]
           /\ status.sync[s] = config.sync[s]

\* A successful reconciliation that met drift with triggerUpdate off.
C5_Witness ==
    \E s \in Services :
        /\ Succeeded
        /\ s \in Projected
        /\ ~triggerUpdate
        /\ provHeld[s] # 0
        /\ provHeld[s] # GitValue(repoSnap.rev, s)
        /\ secretsSynced >= 1
        /\ config.sync[s] >= 1

C7_SyncStateMonotonic ==
    [][\A s \in Services : status'.sync[s] >= status.sync[s]]_vars

\* A phase-only patch has been applied to a status that tracks a secret.
C7_Witness ==
    /\ status.phase \in {"Cloning", "Failed", "Pending", "Retrying", "PartialFailure"}
    /\ status.secretsSynced = Absent
    /\ \E s \in Services : status.sync[s] >= 1

\* C8: a fetch that returns Ok never returns a revision directory that holds
\* only a downloaded artifact.tar.gz and no extracted tree.
C8_NoPartialDirectoryReturned ==
    (pc = "resolved" /\ fetchRes = "ok")
    => ~(disk[CachePath].tar /\ disk[CachePath].tree = 0)

C10_ReturnedTreeNonEmpty ==
    (pc = "resolved" /\ fetchRes = "ok" /\ downloaded >= 1)
    => (disk[CachePath].exists /\ disk[CachePath].tree >= 1)

\* C11: after a reconciliation that resolved the artifact (cache hit or new
\* fetch), at most KeepRevisions revision directories exist for the source.
C11_AtMostThreeRevisionDirs ==
    (pc = "resolved" /\ artifactResult = "Path")
        => Cardinality({d \in RevDirs : disk[d].exists}) <= KeepRevisions

\* C20: for a GitRepository that exists and is not Ready, the result is
\* AwaitChange when it is Reconciling and Error otherwise, never a Path.
C20_NotReadyNeverPath ==
    (pc = "resolved" /\ fetchRes # None /\ ~repoSnap.ready)
        => artifactResult = IF repoSnap.reconciling THEN "AwaitChange" ELSE "Error"

\* C12: no two distinct SMCs resolve to the same on-disk cache directory.
C12_DistinctSmcsDistinctDirs ==
    \A s1 \in SMCs, s2 \in SMCs :
        (s1 # s2 /\ cachePathOf[s1] # NoPath) => cachePathOf[s1] # cachePathOf[s2]

\* C13: at most one reconciliation of a given SMC is in flight at any time,
\* whether it was started by the startup pass or, in the loop, by a watch
\* event, a timer or a manual trigger.
C13_OneReconciliationInFlight == \A s \in SMCs : ~overlaps[s]

\* A request for s arrived while its reconciliation runs, and waits.
C13_Witness == \E s \in SMCs : running[s] = "loop" /\ s \in queue /\ s \notin startup

\* C14: the k-th consecutive failure of an SMC is requeued after the k-th
\* of 1, 1, 2, 3, 5, 8, 13, 21, 34, 55 minutes, and after 60 minutes beyond
\* the tenth.
C14_FibonacciSchedule ==
    \A s \in SMCs :
        (outcome[s] = "error" /\ action[s].kind = "backoff")
            => action[s].minutes =
                   CalculateProgressiveBackoff(backoff_states[KeyOf(s)].error_count - 1)

\* C15: a success resets the backoff state of the SMC to index 0, and the
\* failure that follows a success is requeued after 1 minute.
C15_SuccessResetsBackoff ==
    [][\A s \in SMCs :
          /\ (running[s] = "loop" /\ outcome'[s] = "ok" /\ running'[s] = "none")
                => /\ backoff_states'[KeyOf(s)].error_count = 0
                   /\ backoff_states'[KeyOf(s)].backoff.index = 0
          /\ (running[s] = "loop" /\ outcome[s] = "ok" /\ outcome'[s] = "error"
                /\ action'[s].kind = "backoff")
                => action'[s].minutes = 1]_vars

\* An SMC that failed, then succeeded, then failed again with a 1 minute
\* requeue.
C15_Witness ==
    \E s \in SMCs :
        /\ outcome[s] = "ok"
        /\ backoff_states[KeyOf(s)].present
        /\ backoff_states[KeyOf(s)].error_count = 0
        /\ running[s] = "none"

\* C16: the failure or success of one SMC changes neither the backoff state
\* nor the requeue delay of another SMC.
C16_BackoffPerResource ==
    [][\A s \in SMCs :
          (running'[s] = running[s])
              => /\ backoff_states'[KeyOf(s)] = backoff_states[KeyOf(s)]
                 /\ action'[s] = action[s]]_vars

\* One SMC has failed twice while another, of the same name, has succeeded.
C16_Witness ==
    \E s1 \in SMCs, s2 \in SMCs :
        /\ s1 # s2
        /\ backoff_states[KeyOf(s1)].error_count = 2
        /\ action[s1].kind = "backoff"
        /\ outcome[s2] = "ok"
        /\ backoff_states[KeyOf(s2)].error_count = 0

\* C17: the error policy returns a requeue with a finite delay in one step,
\* whether the backoff_states lock can be taken or is poisoned.
C17_ErrorPolicyAlwaysRequeues ==
    [][\A s \in SMCs :
          (running[s] = "loop" /\ running'[s] = "none" /\ outcome'[s] = "error")
              => /\ action'[s].kind \in {"backoff", "default"}
                 /\ poisoned => action'[s].kind = "default"]_vars

\* A failure handled while the lock is poisoned.
C17_Witness ==
    \E s \in SMCs : poisoned /\ outcome[s] = "error" /\ action[s].kind = "default"

C19_MissingSourceAwaitsChange ==
    (pc = "resolved" /\ fetchErr = "not found")
        => (artifactResult = "AwaitChange" /\ status.phase = "Pending")

\* C21: a failure while processing one service never prevents the remaining
\* discovered services from being processed in the same reconciliation: when
\* sync_secrets has returned after a service failed, every file set it found
\* has been processed.
C21_FailureKeepsOtherServices ==
    (syncPc \in {"returned", "done"} /\ \E i \in 1..fileSets : IsFailure(fileError[i]))
        => \A i \in 1..fileSets : fileError[i] # NoError

\* C22: a service failure sets status Retrying if and only if it is a SOPS
\* error whose transient flag is true; every other provider or parse failure
\* sets status PartialFailure.
C22_RetryingIffTransientSops ==
    [][(syncPc = "loop" /\ fileIdx <= fileSets /\ IsFailure(fileError'[fileIdx]))
          => status'.phase = (IF TransientFlag(fileError'[fileIdx])
                              THEN "Retrying" ELSE "PartialFailure")]_vars

\* C23: if a service fails permanently during a reconciliation, no provider
\* write is made for that file and the phase when the reconciliation ends is
\* PartialFailure, not Ready. Checked where no other service made
\* sync_secrets return early.
C23_PermanentFailureEndsPartialFailure ==
    \A i \in 1..fileSets :
        (syncPc = "done" /\ syncResult = "Success"
           /\ IsFailure(fileError[i]) /\ ~TransientFlag(fileError[i]))
            => (fileWrites[i] = 0 /\ status.phase = "PartialFailure")

\* C25: while spec.suspend stays true, any number of reconciliations produce
\* exactly one status transition (to Suspended) and no further write: once a
\* reconciliation has been made with the flag set, the phase is Suspended and
\* the stored status does not change any more until the flag flips.
C25_SuspendedOneTransition ==
    [][(suspend /\ suspend')
          => /\ runs' >= 1 => status'.phase = "Suspended"
             /\ runs >= 1 => status' = status]_vars

\* Two reconciliations were made while the flag stayed set, the second one
\* later than the write of the first.
C25_Witness ==
    /\ suspend
    /\ runs >= 2
    /\ status.phase = "Suspended"
    /\ status.lastReconcileTime < now - 1

\* C26: consecutive status patch calls with identical arguments produce no
\* observable change of the status: a phase patch whose phase and description
\* equal those already stored performs no write, also when both calls happen
\* inside the same reconciliation.
C26_IdenticalPhasePatchNoWrite ==
    [][(now' = now + 1 /\ lastCall'.op = "phase"
          /\ status.phase = lastCall'.phase
          /\ status.description = lastCall'.description)
          => status' = status]_vars

\* C27: the sync-count status patch performs no write when the current phase
\* is Ready and the synced count is unchanged, be it the phase and count
\* stored or those of the object the reconciliation holds.
C27_SameCountNoWrite ==
    [][(now' = now + 1 /\ lastCall'.op = "count"
          /\ \/ status.phase = "Ready" /\ status.secretsSynced = lastCall'.count
             \/ config.phase = "Ready" /\ config.secretsSynced = lastCall'.count)
          => status' = status]_vars

\* update_status was called with the count a Ready object already showed, and
\* the stored status is older than the call.
C27_Witness ==
    /\ lastCall.op = "count"
    /\ status.phase = "Ready"
    /\ status.secretsSynced = lastCall.count
    /\ status.lastReconcileTime < now - 1

\* C28: the lastTransitionTime of the Ready condition changes only in a status
\* patch that flips the status of the condition between True and False.
C28_TransitionTimeOnlyOnFlip ==
    [][(Len(status.conditions) = 1 /\ Len(status'.conditions) = 1
          /\ status'.conditions[1].status = status.conditions[1].status)
          => status'.conditions[1].lastTransitionTime
               = status.conditions[1].lastTransitionTime]_vars

\* C29: after every status patch the status holds exactly one condition, of
\* type Ready, whose status is True if and only if the phase is Ready.
C29_OneReadyCondition ==
    status.phase # None
        => /\ Len(status.conditions) = 1
           /\ status.conditions[1].type = "Ready"
           /\ status.conditions[1].status = "True" <=> status.phase = "Ready"

\* A phase patch wrote a condition that is not True and a later count patch
\* replaced it by one that is.
C29_Witness ==
    /\ lastCall.op = "count"
    /\ status.phase = "Ready"
    /\ status.lastReconcileTime = now - 1
    /\ config.phase \notin {None, "Ready"}
    /\ Len(status.conditions) = 1

C30_KeyIsMostRecentValid ==
    watchEvents = <<>> => (sops_private_key = 0 \/ sops_private_key = lastValid)

\* The key the controller namespace holds: the key field of the first of the
\* three names that has one (0: none, NotUtf8: it cannot be decoded).
ControllerNamespaceKey ==
    LET i == FirstKeySecret(ControllerNamespace)
    IN  IF i = 0 THEN 0 ELSE KeyField(secrets[<<ControllerNamespace, SecretNames[i]>>])

\* C31: when a key secret is deleted, the watcher reloads from the
\* controller's own namespace: the key in memory afterwards is the key of that
\* namespace when the reload succeeds and is absent when it fails.
C31_DeleteReloadsOrClears ==
    [][(watchEvents # <<>> /\ Head(watchEvents).type = "Delete"
          /\ watchEvents' = Tail(watchEvents))
          => sops_private_key' = (IF ControllerNamespaceKey = NotUtf8 THEN 0
                                  ELSE ControllerNamespaceKey)]_vars

\* A Delete was processed while a key was in memory and the key of the
\* controller namespace could not be decoded: the key is cleared.
C31_Witness ==
    /\ lastEvent.type = "Delete"
    /\ ~lastEvent.reloaded
    /\ lastEvent.before > 0
    /\ sops_private_key = 0

\* C32: if RBAC verification keeps failing, the key watcher verifies at most
\* MAX_RETRIES times with RETRY_DELAY_SECS between two attempts and then
\* ends only itself: the watch is never started and no event is processed,
\* the key in memory stays as it was, and a reconciliation still gets the
\* key mutex.
C32_RbacAbortsOnlyWatcher ==
    /\ [](retry_count <= MAX_RETRIES
          /\ slept <= MAX_RETRIES * RETRY_DELAY_SECS
          /\ (watchPc = "aborted" => (retry_count = MAX_RETRIES /\ watchEvents = <<>>)))
    /\ [][(watchPc = "aborted" \/ watchPc \in {"verify", "sleep"})
            => (sops_private_key' = sops_private_key
                /\ (watchPc = "aborted" => watchPc' = "aborted"))]_vars
    /\ ((watchPc = "aborted" /\ keyLock = None) ~> (keyLock = "reader"))

\* The watcher gave up after sleeping between its attempts while a key is in
\* memory, and a reconciliation holds the mutex to read it.
C32_Witness ==
    /\ watchPc = "aborted"
    /\ retry_count = MAX_RETRIES
    /\ slept = (MAX_RETRIES - 1) * RETRY_DELAY_SECS
    /\ sops_private_key > 0
    /\ keyLock = "reader"

\* C33: the key mutex is never held across an API call or other external
\* I/O: the watcher holds it only at the assignment, takes it only after the
\* new key value has been fetched, and releases it with the assignment.
C33_LockNotHeldAcrossIO ==
    /\ [](keyLock = "watcher" => watchPc = "assign")
    /\ [][((keyLock # "watcher" /\ keyLock' = "watcher")
                => (watchPc = "lock" /\ fetched.assign))
           /\ ((keyLock = "watcher" /\ watchPc' # watchPc)
                => (keyLock' = None /\ sops_private_key' = fetched.key))]_vars

\* The watcher holds the mutex with a fetched key that differs from the one
\* in memory.
C33_Witness ==
    /\ keyLock = "watcher"
    /\ watchPc = "assign"
    /\ fetched.assign
    /\ fetched.key # sops_private_key

\* The reason the claim gives for an exit code.
ReasonOfExitCode ==
    [code \in {2, 3, 4, 5, 6} |->
        CASE code = 3 -> "KeyNotFound"
          [] code = 4 -> "WrongKey"
          [] code = 6 -> "InvalidKeyFormat"
          [] code = 5 -> "UnsupportedFormat"
          [] OTHER -> "CorruptedFile"]

\* C34: a failure of sops is classified by its exit code first (3, 4, 6, 5
\* and 2 give KeyNotFound, WrongKey, InvalidKeyFormat, UnsupportedFormat and
\* CorruptedFile) whatever the message says; the message decides only for
\* another or a missing exit code, and the error is transient exactly for
\* NetworkTimeout, ProviderUnavailable, PermissionDenied and Unknown.
C34_ExitCodeFirst ==
    sopsError # NoError
        => /\ exit_code \in DOMAIN ReasonOfExitCode
                => sopsError.reason = ReasonOfExitCode[exit_code]
           /\ exit_code \notin DOMAIN ReasonOfExitCode
                => sopsError.reason = ClassifyByMessage(stderr, exit_code)
           /\ TransientFlag(sopsError)
                <=> sopsError.reason \in {"NetworkTimeout", "ProviderUnavailable",
                                          "PermissionDenied", "Unknown"}

\* sops ended with exit code 3 and a message that speaks of a timeout: the
\* error is KeyNotFound and permanent.
C34_Witness ==
    /\ exit_code = 3
    /\ ClassifyByMessage(stderr, exit_code) = "NetworkTimeout"
    /\ sopsError.reason = "KeyNotFound"
    /\ ~TransientFlag(sopsError)

\* C35: a reconciliation that fails spec validation sets phase Failed and is
\* requeued after a fixed 5 minutes, and it leaves the backoff state of every
\* SMC as it was, however many validation failures occur in a row.
C35_ValidationFailureFixedRequeue ==
    [][\A s \in SMCs :
          (running[s] = "loop" /\ running'[s] = "none"
             /\ ~ValidateSecretManagerConfig(sourceRef[s]))
          => /\ action'[s].kind = "validation"
             /\ action'[s].minutes = 5
             /\ backoff_states' = backoff_states
             /\ (s = Self => status'.phase = "Failed")]_vars

\* An SMC failed for another reason once, was edited into an invalid spec
\* and failed validation: its error count is still one.
C35_Witness ==
    /\ outcome[Self] = "invalid"
    /\ action[Self] = RequeueValidation
    /\ backoff_states[KeyOf(Self)].error_count = 1
    /\ status.phase = "Failed"
    /\ Self \in queue

\* C36: a 429 error sleeps the stored backoff and stores its double, capped at
\* the configured maximum, so over consecutive 429 errors the delay doubles up
\* to that maximum and never exceeds it; an error carrying a 410 marker lets
\* the watch restart and leaves the backoff as it was, as does every error
\* other than 429.
C36_BackoffDoublesCapped ==
    /\ [](streamResult.arm = "429" => (streamResult.delay.unit = "ms"
                                       /\ streamResult.delay.n <= max_backoff_ms))
    /\ [][(WatchStreamError /\ streamResult'.arm = "429")
            => (streamResult'.delay.n = watch_backoff
                /\ watch_backoff' = (IF 2 * watch_backoff < max_backoff_ms
                                     THEN 2 * watch_backoff ELSE max_backoff_ms)
                /\ (streamResult.arm = "429"
                      => streamResult'.delay.n = (IF 2 * streamResult.delay.n < max_backoff_ms
                                                 THEN 2 * streamResult.delay.n
                                                 ELSE max_backoff_ms)))]_vars
    /\ [][(WatchStreamError /\ (Is410(streamResult'.error) \/ streamResult'.arm # "429"))
            => (watch_backoff' = watch_backoff
                /\ (Is410(streamResult'.error) => streamResult'.restart)
                /\ (streamResult'.arm = "410" => streamResult'.delay = NoDelay))]_vars

\* A third consecutive 429 error slept the maximum, which is not a power-of-two
\* multiple of the initial backoff.
C36_Witness ==
    /\ streamResult.arm = "429"
    /\ max_backoff_ms = 5
    /\ streamResult.delay.n = 5
    /\ watch_backoff = 5

\* C37: the directory a Flux fetch returns with an extracted tree holds the
\* tree of the revision the fetch read from status.artifact.revision.
C37_ReturnedTreeOfCurrentRevision ==
    (pc = "resolved" /\ fetchRes = "ok" /\ disk[CachePath].tree >= 1)
    => disk[CachePath].rev = repoSnap.rev

\* C38: the working copy get_argocd_artifact_path returns for a targetRevision
\* that is a branch (any name but the default HEAD) is at the commit the
\* branch has at the remote when the reconciliation starts.
C38_WorkingCopyAtBranchHead ==
    (pc = "resolved" /\ fetchRes = "ok" /\ application.target # 0)
    => argoDisk[ClonePath].rev = remoteHead[application.target]

\* C39: a fetch never returns, as a cache hit, a revision directory into which
\* the fetch of another reconciliation is still downloading or extracting.
C39_NoHitOnDirectoryInFlight ==
    [][(pc = "fetch" /\ pc' = "resolved" /\ fetchRes' = "ok")
          => ~(peerPc \in {"send", "stream", "extract"} /\ PeerPath = CachePath)]_vars

\* C40: while an SMC is reconciled that was Ready with every projected secret
\* counted, against a revision whose tree is cached and a provider that holds
\* every Git value, no step of the reconciliation changes the status.
C40_ReadyReconcileNoStatusPatch ==
    [][(/\ pc # "idle"
        /\ config.phase = "Ready"
        /\ gitRepo.exists
        /\ gitRepo.rev # 0
        /\ disk[RevisionDir(Revision(gitRepo.rev))].tree >= 1
        /\ disk[RevisionDir(Revision(gitRepo.rev))].rev = gitRepo.rev
        /\ config.secretsSynced = disk[RevisionDir(Revision(gitRepo.rev))].tree
        /\ \A s \in Services :
              /\ config.sync[s] >= 1
              /\ provHeld[s] = GitValue(gitRepo.rev, s)
              /\ provider[s] = provHeld[s])
          => status' = status]_vars

====
